---- MODULE Spec2Model ----
(***************************************************************************)
(* Model of the event-emitter client: the binary Event codec (protocol/    *)
(* event.go, protocol/uuid.go), the payload lexer and parser, and the      *)
(* ingestion pipeline collectEvents / readDatagrams (main.go).             *)
(*                                                                         *)
(* Bytes are the integers 0..255 and a byte string is a sequence of bytes. *)
(* A uint32 is held as a pair <<hi, lo>> of 16-bit halves, because the     *)
(* model checker's integers are 32-bit signed and a CRC-32 does not fit.   *)
(***************************************************************************)
EXTENDS Integers, Sequences, FiniteSets, TLC

\* ------------------------------------------------------------------------
\* Bounds of the model
\* ------------------------------------------------------------------------
MaxDatagrams == 2
MaxRecv == 2
MaxReadErrs == 1
\* payload strings: every byte string up to MaxInputLen bytes, and every
\* list of up to MaxPairs key:value pairs
MaxInputLen == 3
MaxPairs == 2
\* occurrence maps of up to MaxEntries entries, top(count) for count up to
\* MaxCount
MaxEntries == 3
MaxCount == 4
\* readDatagrams on its own: a channel of up to MaxQueue buffered datagrams,
\* a receiver that takes up to MaxDrain of them
MaxQueue == 2
MaxDrain == 2

\* ------------------------------------------------------------------------
\* Fixed-width integers
\* ------------------------------------------------------------------------
RECURSIVE XorBits(_, _, _)
\* bitwise exclusive or of two naturals below 2^w, bit by bit
XorBits(a, c, w) ==
    IF w = 0 THEN 0
    ELSE ((a + c) % 2) + 2 * XorBits(a \div 2, c \div 2, w - 1)

\* the exclusive or of two 4-bit values, tabulated as a sequence of
\* sequences: a xor c is XorNibble[a + 1][c + 1]
XorRow(a) == SubSeq([c \in 1..16 |-> XorBits(a, c - 1, 4)], 1, 16)

XorNibble == SubSeq([a \in 1..16 |-> XorRow(a - 1)], 1, 16)

Xor8(a, c) ==
    XorNibble[(a \div 16) + 1][(c \div 16) + 1] * 16
        + XorNibble[(a % 16) + 1][(c % 16) + 1]

Xor16(a, c) == Xor8(a \div 256, c \div 256) * 256 + Xor8(a % 256, c % 256)

Xor32(x, y) == <<Xor16(x[1], y[1]), Xor16(x[2], y[2])>>

Not32(x) == <<65535 - x[1], 65535 - x[2]>>

Shr1(x) == <<x[1] \div 2, (x[1] % 2) * 32768 + (x[2] \div 2)>>

Shr8(x) == <<x[1] \div 256, (x[1] % 256) * 256 + (x[2] \div 256)>>

\* x + 1 on a uint32, wrapping at 2^32
Inc32(x) ==
    IF x[2] < 65535 THEN <<x[1], x[2] + 1>>
    ELSE <<(x[1] + 1) % 65536, 0>>

\* binary.BigEndian.AppendUint16 / AppendUint32
AppendUint16(bs, v) == bs \o <<v \div 256, v % 256>>

AppendUint32(bs, v) ==
    bs \o <<v[1] \div 256, v[1] % 256, v[2] \div 256, v[2] % 256>>

\* binary.BigEndian.Uint16 / Uint32 of a 2-byte / 4-byte string
Uint16(bs) == bs[1] * 256 + bs[2]

Uint32(bs) == <<bs[1] * 256 + bs[2], bs[3] * 256 + bs[4]>>

\* ------------------------------------------------------------------------
\* hash/crc32, IEEE polynomial
\* ------------------------------------------------------------------------
IEEE == <<60856, 33568>>    \* 0xedb88320

RECURSIVE crcTableEntry(_, _)
crcTableEntry(crc, k) ==
    IF k = 0 THEN crc
    ELSE crcTableEntry(IF crc[2] % 2 = 1 THEN Xor32(Shr1(crc), IEEE)
                                         ELSE Shr1(crc), k - 1)

\* the table of 256 entries as a sequence: entry j of the table is
\* IEEETable[j + 1]
IEEETable == SubSeq([j \in 1..256 |-> crcTableEntry(<<0, j - 1>>, 8)], 1, 256)

\* one step of the table-driven update: tab[byte(crc) ^ b] ^ (crc >> 8)
crcStep(crc, c) == Xor32(IEEETable[Xor8(crc[2] % 256, c) + 1], Shr8(crc))

IsUint32(x) == x[1] \in 0..65535 /\ x[2] \in 0..65535

RECURSIVE crcUpdate(_, _, _, _)
\* the checksum register after the bytes p[lo..hi], taken in order; the
\* range is halved, and the register after the first half is evaluated
\* (by the range test) before the second half starts, to keep the
\* evaluation shallow
crcUpdate(crc, p, lo, hi) ==
    IF lo > hi THEN crc
    ELSE IF lo = hi THEN crcStep(crc, p[lo])
    ELSE LET mid == (lo + hi) \div 2
             left == crcUpdate(crc, p, lo, mid)
         IN  IF IsUint32(left) THEN crcUpdate(left, p, mid + 1, hi) ELSE left

Checksum(data) == Not32(crcUpdate(Not32(<<0, 0>>), data, 1, Len(data)))

\* ------------------------------------------------------------------------
\* Errors: the chain of fmt.Errorf labels, the innermost cause, and the
\* counts of a "read X of Y bytes" report
\* ------------------------------------------------------------------------
\* Go's int (64 bits, two's complement) as eight bytes, the most
\* significant first
Int64(v) ==
    <<0, 0, 0, 0, (v \div 16777216) % 256, (v \div 65536) % 256,
      (v \div 256) % 256, v % 256>>

Negative(x) == x[1] >= 128

\* x << 16, x << 4 and x << 20 on 64 bits: the bits shifted out are lost
Shl16(x) == SubSeq(x, 3, 8) \o <<0, 0>>

Shl4(x) ==
    [k \in 1..8 |-> (x[k] % 16) * 16 + (IF k < 8 THEN x[k + 1] \div 16 ELSE 0)]

Shl20(x) == Shl4(Shl16(x))

RECURSIVE AddOne(_, _)
\* x + 1 from the byte k on, the carry going up
AddOne(x, k) ==
    IF k = 0 THEN x
    ELSE IF x[k] = 255 THEN AddOne([x EXCEPT ![k] = 0], k - 1)
    ELSE [x EXCEPT ![k] = @ + 1]

\* -x, which is also the magnitude of a negative x as an unsigned value
Negate(x) == AddOne([k \in 1..8 |-> 255 - x[k]], 8)

RECURSIVE DivFrom(_, _, _, _, _)
\* the unsigned x divided by d (0 < d < 2^16), byte by byte from byte k
DivFrom(x, d, k, rem, quo) ==
    IF k > 8 THEN quo
    ELSE DivFrom(x, d, k + 1, (rem * 256 + x[k]) % d,
                 Append(quo, (rem * 256 + x[k]) \div d))

\* x / d in Go: the quotient truncated toward zero, as sign and magnitude
Quo(x, d) ==
    IF Negative(x) THEN [neg |-> TRUE, mag |-> DivFrom(Negate(x), d, 1, 0, <<>>)]
    ELSE [neg |-> FALSE, mag |-> DivFrom(x, d, 1, 0, <<>>)]

\* the value of a magnitude below 2^31
ToInt(x) == ((x[5] * 256 + x[6]) * 256 + x[7]) * 256 + x[8]

Nil == [labels |-> <<>>, cause |-> "nil", x |-> 0, y |-> 0]

ErrIO(c) == [labels |-> <<>>, cause |-> c, x |-> 0, y |-> 0]

ErrShort(got, total) == [labels |-> <<>>, cause |-> "short read", x |-> got, y |-> total]

\* fmt.Errorf(label + ": %w", err)
Wrap(label, err) == [err EXCEPT !.labels = <<label>> \o @]

\* ------------------------------------------------------------------------
\* Reading from a bytes.Buffer holding the byte string r
\* ------------------------------------------------------------------------
Min(a, c) == IF a < c THEN a ELSE c

Zeros(k) == [j \in 1..k |-> 0]

Drop(r, k) == SubSeq(r, k + 1, Len(r))

\* bytes.Buffer.Read into a slice of length k
BufRead(r, k) ==
    IF Len(r) = 0
    THEN [n |-> 0, err |-> IF k = 0 THEN "nil" ELSE "EOF", data |-> <<>>, rest |-> r]
    ELSE [n |-> Min(k, Len(r)), err |-> "nil",
          data |-> SubSeq(r, 1, Min(k, Len(r))), rest |-> Drop(r, Min(k, Len(r)))]

\* binary.Read of a k-byte fixed-width value: io.ReadFull on the source
BinaryRead(r, k) ==
    IF Len(r) >= k
    THEN [err |-> "nil", data |-> SubSeq(r, 1, k), rest |-> Drop(r, k)]
    ELSE [err |-> IF Len(r) = 0 THEN "EOF" ELSE "unexpected EOF",
          data |-> <<>>, rest |-> <<>>]

\* ------------------------------------------------------------------------
\* protocol/uuid.go
\*
\* A decoder is written as one operator per field; the operator of a field
\* takes the result f of reading that field and goes on to the next field.
\* ------------------------------------------------------------------------
ZeroUUID ==
    [TimeLow |-> <<0, 0>>, TimeMid |-> 0, TimeHiAndVersion |-> 0,
     ClockSeqHiAndRes |-> 0, ClockSeqLow |-> 0, Node |-> Zeros(6)]

\* marshalBinary with the two clock sequence bytes in the other order
UUIDmarshalBinarySwapped(u) ==
    AppendUint16(AppendUint16(AppendUint32(<<>>, u.TimeLow), u.TimeMid),
                 u.TimeHiAndVersion)
        \o <<u.ClockSeqLow, u.ClockSeqHiAndRes>> \o u.Node

\* UUID.marshalBinary
UUIDmarshalBinary(u) ==
    AppendUint16(AppendUint16(AppendUint32(<<>>, u.TimeLow), u.TimeMid),
                 u.TimeHiAndVersion)
        \o <<u.ClockSeqHiAndRes, u.ClockSeqLow>> \o u.Node

UUIDResult(u, r, n, err) == [u |-> u, rest |-> r, n |-> n, err |-> err]

\* the read of the node without the test of the number of bytes read
UUIDReadNodeUnchecked(u, f) ==
    UUIDResult([u EXCEPT !.Node = f.data \o SubSeq(@, f.n + 1, 6)], f.rest,
               10 + f.n, Nil)

\* f is the result of r.Read(u.Node[:])
UUIDReadNode(u, f) ==
    UUIDResult([u EXCEPT !.Node = f.data \o SubSeq(@, f.n + 1, 6)], f.rest,
               IF f.err = "nil" /\ f.n = 6 THEN 10 + f.n ELSE 10,
               IF f.err # "nil" THEN Wrap("reading node", ErrIO(f.err))
               ELSE IF f.n # 6 THEN Wrap("reading node", ErrShort(f.n, 6))
               ELSE Nil)

UUIDReadClockSeqLow(u, f) ==
    IF f.err # "nil"
    THEN UUIDResult(u, f.rest, 9, Wrap("reading clock seq low", ErrIO(f.err)))
    ELSE UUIDReadNode([u EXCEPT !.ClockSeqLow = f.data[1]], BufRead(f.rest, 6))

UUIDReadClockSeqHiAndRes(u, f) ==
    IF f.err # "nil"
    THEN UUIDResult(u, f.rest, 8, Wrap("reading clock seq hi and res", ErrIO(f.err)))
    ELSE UUIDReadClockSeqLow([u EXCEPT !.ClockSeqHiAndRes = f.data[1]],
                             BinaryRead(f.rest, 1))

UUIDReadTimeHiAndVersion(u, f) ==
    IF f.err # "nil"
    THEN UUIDResult(u, f.rest, 6, Wrap("reading time hi and version", ErrIO(f.err)))
    ELSE UUIDReadClockSeqHiAndRes([u EXCEPT !.TimeHiAndVersion = Uint16(f.data)],
                                  BinaryRead(f.rest, 1))

UUIDReadTimeMid(u, f) ==
    IF f.err # "nil"
    THEN UUIDResult(u, f.rest, 4, Wrap("reading time mid", ErrIO(f.err)))
    ELSE UUIDReadTimeHiAndVersion([u EXCEPT !.TimeMid = Uint16(f.data)],
                                  BinaryRead(f.rest, 2))

UUIDReadTimeLow(u, f) ==
    IF f.err # "nil"
    THEN UUIDResult(u, f.rest, 0, Wrap("reading time low", ErrIO(f.err)))
    ELSE UUIDReadTimeMid([u EXCEPT !.TimeLow = Uint32(f.data)],
                         BinaryRead(f.rest, 2))

UUIDReadFrom(u, r) == UUIDReadTimeLow(u, BinaryRead(r, 4))

\* ------------------------------------------------------------------------
\* Payload lexer (protocol/payload_lexer.go)
\* ------------------------------------------------------------------------
tokenEOF == 1
tokenKey == 2
tokenValue == 3

pairSeparator == 44    \* ","
separator == 58        \* ":"
eof == -1
RuneError == 65533

InRange(x, lo, hi) == lo <= x /\ x <= hi

\* the number of bytes the first byte b0 of a UTF-8 sequence announces
RuneLen(b0) ==
    IF InRange(b0, 194, 223) THEN 2
    ELSE IF InRange(b0, 224, 239) THEN 3
    ELSE IF InRange(b0, 240, 244) THEN 4
    ELSE 1

\* the values the second byte may take after the first byte b0
SecondLo(b0) == IF b0 = 224 THEN 160 ELSE IF b0 = 240 THEN 144 ELSE 128
SecondHi(b0) == IF b0 = 237 THEN 159 ELSE IF b0 = 244 THEN 143 ELSE 191

\* utf8.DecodeRuneInString on the non-empty byte string s
DecodeRuneInString(s) ==
    IF s[1] < 128 THEN [r |-> s[1], w |-> 1]
    ELSE IF RuneLen(s[1]) = 1 \/ Len(s) < RuneLen(s[1])
    THEN [r |-> RuneError, w |-> 1]
    ELSE IF ~InRange(s[2], SecondLo(s[1]), SecondHi(s[1]))
    THEN [r |-> RuneError, w |-> 1]
    ELSE IF RuneLen(s[1]) = 2
    THEN [r |-> (s[1] % 32) * 64 + (s[2] % 64), w |-> 2]
    ELSE IF ~InRange(s[3], 128, 191) THEN [r |-> RuneError, w |-> 1]
    ELSE IF RuneLen(s[1]) = 3
    THEN [r |-> (s[1] % 16) * 4096 + (s[2] % 64) * 64 + (s[3] % 64), w |-> 3]
    ELSE IF ~InRange(s[4], 128, 191) THEN [r |-> RuneError, w |-> 1]
    ELSE [r |-> (s[1] % 8) * 262144 + (s[2] % 64) * 4096
                + (s[3] % 64) * 64 + (s[4] % 64), w |-> 4]

\* a lexer is [input, start, pos, width, tokens, panicked]: tokens is the
\* sequence of tokens sent on the token channel so far, and panicked says
\* that a slice expression went out of range (a run-time panic)
NewLexer(input) ==
    [input |-> input, start |-> 0, pos |-> 0, width |-> 0,
     tokens |-> <<>>, panicked |-> FALSE]

isEOF(l) == l.pos >= Len(l.input)

\* l.input[l.pos:] is defined only for pos <= len(input)
SliceOK(l) == l.pos <= Len(l.input)

\* the lexer after the rune d was decoded at pos, and that rune
Advance(l, d) == [l |-> [l EXCEPT !.width = d.w, !.pos = @ + d.w], r |-> d.r]

next(l) ==
    IF isEOF(l) THEN [l |-> [l EXCEPT !.width = 0], r |-> eof]
    ELSE Advance(l, DecodeRuneInString(Drop(l.input, l.pos)))

\* backup that leaves the position where it is
backupNothing(l) == l

backup(l) == [l EXCEPT !.pos = @ - l.width]

RECURSIVE acceptUntilLoop(_, _)
\* the loop of acceptUntil, nx being the result of the latest l.next()
acceptUntilLoop(nx, c) ==
    IF nx.r # eof /\ nx.r # c THEN acceptUntilLoop(next(nx.l), c)
    ELSE backup(nx.l)

acceptUntil(l, c) == acceptUntilLoop(next(l), c)

RECURSIVE acceptUntilEOFLoop(_)
acceptUntilEOFLoop(nx) ==
    IF nx.r # eof THEN acceptUntilEOFLoop(next(nx.l)) ELSE nx.l

acceptUntilEOF(l) == acceptUntilEOFLoop(next(l))

emit(l, t) ==
    IF l.start <= l.pos /\ l.pos <= Len(l.input)
    THEN [l EXCEPT !.tokens = Append(@, [typ |-> t, pos |-> l.pos,
                                         val |-> SubSeq(l.input, l.start + 1, l.pos)]),
                   !.start = l.pos]
    ELSE [l EXCEPT !.panicked = TRUE]

ignore(l) == [l EXCEPT !.start = l.pos]

\* the least element of a set of offsets, -1 for the empty set
LeastOrNone(hits) ==
    IF hits = {} THEN -1 ELSE CHOOSE x \in hits : \A y \in hits : x <= y

\* strings.Index(l.input[l.pos:], c) for a one-byte string c
index(l, c) ==
    LeastOrNone({k \in 0..(Len(l.input) - l.pos - 1) : l.input[l.pos + k + 1] = c})

RECURSIVE firstLoop(_, _, _, _)
RECURSIVE firstPick(_, _, _, _, _)
\* the body of the loop of first, k being l.index(c) of the current c
firstPick(l, chars, k, firstIndex, firstString) ==
    IF k >= 0 /\ (firstIndex < 0 \/ k < firstIndex)
    THEN firstLoop(l, Tail(chars), k, Head(chars))
    ELSE firstLoop(l, Tail(chars), firstIndex, firstString)

firstLoop(l, chars, firstIndex, firstString) ==
    IF chars = <<>> THEN firstString
    ELSE firstPick(l, chars, index(l, Head(chars)), firstIndex, firstString)

\* first that returns the first of chars that occurs at all
firstThatOccurs(l, chars) ==
    IF index(l, chars[1]) >= 0 THEN chars[1]
    ELSE IF index(l, chars[2]) >= 0 THEN chars[2]
    ELSE 0

\* 0 stands for the empty string
first(l, chars) == firstLoop(l, chars, -1, 0)

\* a state function returns the lexer and the name of the next state; a
\* panic ends the run
Then(l, state) == [l |-> l, state |-> IF l.panicked THEN "nil" ELSE state]

lexKey(l) == Then(emit(acceptUntil(l, separator), tokenKey), "lexSeparator")

\* the pair separator is passed but stays in the pending text
lexPairSeparatorKept(l) == Then([l EXCEPT !.pos = @ + 1], "lexKey")

lexPairSeparator(l) == Then(ignore([l EXCEPT !.pos = @ + 1]), "lexKey")

lexSeparator(l) == Then(ignore([l EXCEPT !.pos = @ + 1]), "lexValue")

\* an end of lexValue that emits the end-of-input token twice
lexValueEndTwice(l, nextState) ==
    IF ~l.panicked /\ isEOF(l) THEN Then(emit(emit(l, tokenEOF), tokenEOF), "nil")
    ELSE Then(l, nextState)

\* the end of lexValue, l being the lexer after emit(tokenValue)
lexValueEnd(l, nextState) ==
    IF ~l.panicked /\ isEOF(l) THEN Then(emit(l, tokenEOF), "nil")
    ELSE Then(l, nextState)

lexValue(l) ==
    IF ~SliceOK(l) THEN Then([l EXCEPT !.panicked = TRUE], "nil")
    ELSE IF index(l, separator) >= 0
            /\ first(l, <<pairSeparator, separator>>) = pairSeparator
    THEN lexValueEnd(emit(acceptUntil(l, pairSeparator), tokenValue),
                     "lexPairSeparator")
    ELSE lexValueEnd(emit(acceptUntilEOF(l), tokenValue), "nil")

\* l.state = l.state(l): one pass of the loop of run
runState(s) ==
    CASE s.state = "lexKey" -> lexKey(s.l)
      [] s.state = "lexSeparator" -> lexSeparator(s.l)
      [] s.state = "lexValue" -> lexValue(s.l)
      [] s.state = "lexPairSeparator" -> lexPairSeparator(s.l)

RECURSIVE run(_)
\* the loop of run, s being the lexer and the state to run next
run(s) == IF s.state = "nil" THEN s.l ELSE run(runState(s))

\* lex(input) followed by the lexer goroutine's run(): the lexer at its end
lex(input) == run([l |-> NewLexer(input), state |-> "lexKey"])

\* ------------------------------------------------------------------------
\* Payload parser (protocol/payload_parser.go)
\* ------------------------------------------------------------------------
\* an assignment that keeps the value a key already has
MapKeep(m, k, v) ==
    [x \in (DOMAIN m) \cup {k} |-> IF x \in DOMAIN m THEN m[x] ELSE v]

\* m[k] = v on a Go map
MapPut(m, k, v) == [x \in (DOMAIN m) \cup {k} |-> IF x = k THEN v ELSE m[x]]

RECURSIVE parseTokens(_, _, _, _)
\* the range loop over l.tokens from token k on: the map at its end
parseTokens(toks, k, key, m) ==
    IF k > Len(toks) THEN m
    ELSE IF toks[k].typ = tokenEOF THEN m
    ELSE IF toks[k].typ = tokenKey THEN parseTokens(toks, k + 1, toks[k].val, m)
    ELSE parseTokens(toks, k + 1, key, MapPut(m, key, toks[k].val))

\* what parsePayloadRaw makes of the lexer l at the end of its run
Parsed(l) ==
    [Payload |-> parseTokens(l.tokens, 1, <<>>, <<>>), panicked |-> l.panicked]

\* parsePayloadRaw(e): the Payload map, and whether the lexer goroutine
\* panicked, which ends the whole process
parsePayloadRaw(PayloadBytes) == Parsed(lex(PayloadBytes))

\* ------------------------------------------------------------------------
\* Event codec (protocol/event.go)
\* ------------------------------------------------------------------------
HTTP == 10
SMTP == 17
SSH == 49
TELNET == 35

\* Protocol.String
String(p) ==
    CASE p = HTTP -> "HTTP"
      [] p = SMTP -> "SMTP"
      [] p = SSH -> "SSH"
      [] p = TELNET -> "TELNET"
      [] OTHER -> "UNKNOWN"

\* new(Event): a nil map, a nil slice and the zero netip.Addr are <<>>
ZeroEvent ==
    [NodeID |-> 0, TimeStamp |-> <<0, 0>>, Size |-> 0, EventUUID |-> ZeroUUID,
     Payload |-> <<>>, Protocol |-> 0, Submitter |-> <<0, 0>>,
     CheckSum |-> <<0, 0>>, PayloadBytes |-> <<>>, IP |-> <<>>]

\* marshalBinary with the Protocol field left out
marshalBinaryNoProtocol(e) ==
    AppendUint32(AppendUint16(AppendUint32(AppendUint16(<<>>, e.NodeID),
                                           e.TimeStamp), e.Size)
                     \o UUIDmarshalBinary(e.EventUUID) \o e.PayloadBytes,
                 e.Submitter)

marshalBinary(e) ==
    AppendUint32(
        AppendUint16(AppendUint16(AppendUint32(AppendUint16(<<>>, e.NodeID),
                                               e.TimeStamp), e.Size)
                         \o UUIDmarshalBinary(e.EventUUID) \o e.PayloadBytes,
                     e.Protocol),
        e.Submitter)

MarshalBinary(e) == AppendUint32(marshalBinary(e), e.CheckSum)

Valid(e) == Checksum(marshalBinary(e)) = e.CheckSum

\* netip.AddrFrom4 of the big-endian bytes of the submitter
AddrFrom4(v) == AppendUint32(<<>>, v)

ReadResult(e, r, n, err) ==
    [e |-> e, rest |-> r, n |-> n, err |-> err, panicked |-> FALSE]

ReadCheckSum(e, n, f) ==
    IF f.err # "nil"
    THEN ReadResult(e, f.rest, n, Wrap("reading checksum", ErrIO(f.err)))
    ELSE ReadResult([e EXCEPT !.CheckSum = Uint32(f.data)], f.rest, n + 4, Nil)

\* the read of the submitter with the address derived before the test of
\* the error
ReadSubmitterDerivesFirst(e, n, f) ==
    IF f.err # "nil"
    THEN ReadResult([e EXCEPT !.IP = AddrFrom4(e.Submitter)], f.rest, n,
                    Wrap("reading submitter", ErrIO(f.err)))
    ELSE ReadCheckSum([e EXCEPT !.Submitter = Uint32(f.data),
                                !.IP = AddrFrom4(Uint32(f.data))],
                      n + 4, BinaryRead(f.rest, 4))

ReadSubmitter(e, n, f) ==
    IF f.err # "nil"
    THEN ReadResult(e, f.rest, n, Wrap("reading submitter", ErrIO(f.err)))
    ELSE ReadCheckSum([e EXCEPT !.Submitter = Uint32(f.data),
                                !.IP = AddrFrom4(Uint32(f.data))],
                      n + 4, BinaryRead(f.rest, 4))

ReadProtocol(e, n, f) ==
    IF f.err # "nil"
    THEN ReadResult(e, f.rest, n, Wrap("reading protocol", ErrIO(f.err)))
    ELSE ReadSubmitter([e EXCEPT !.Protocol = Uint16(f.data)], n + 2,
                       BinaryRead(f.rest, 4))

\* p is the result of parsePayloadRaw(e)
ReadParsed(e, r, n, p) ==
    IF p.panicked
    THEN [ReadResult([e EXCEPT !.Payload = p.Payload], r, n, Nil)
             EXCEPT !.panicked = TRUE]
    ELSE ReadProtocol([e EXCEPT !.Payload = p.Payload], n, BinaryRead(r, 2))

\* f is the result of r.Read(e.PayloadBytes) after e.PayloadBytes was made
ReadPayloadBytes(e, n, f) ==
    IF f.err # "nil"
    THEN ReadResult([e EXCEPT !.PayloadBytes = Zeros(e.Size)], f.rest, n,
                    Wrap("reading payload", ErrIO(f.err)))
    ELSE IF f.n # e.Size
    THEN ReadResult([e EXCEPT !.PayloadBytes = f.data \o Zeros(e.Size - f.n)],
                    f.rest, n, Wrap("reading payload", ErrShort(f.n, e.Size)))
    ELSE ReadParsed([e EXCEPT !.PayloadBytes = f.data], f.rest, n + f.n,
                    parsePayloadRaw(f.data))

\* u is the result of e.EventUUID.ReadFrom(r)
ReadUUID(e, n, u) ==
    IF u.err # Nil
    THEN ReadResult([e EXCEPT !.EventUUID = u.u], u.rest, n,
                    Wrap("reading UUID", u.err))
    ELSE ReadPayloadBytes([e EXCEPT !.EventUUID = u.u], n + u.n,
                          BufRead(u.rest, e.Size))

ReadSize(e, n, f) ==
    IF f.err # "nil"
    THEN ReadResult(e, f.rest, n, Wrap("reading size", ErrIO(f.err)))
    ELSE ReadUUID([e EXCEPT !.Size = Uint16(f.data)], n + 2,
                  UUIDReadFrom(e.EventUUID, f.rest))

ReadTimeStamp(e, n, f) ==
    IF f.err # "nil"
    THEN ReadResult(e, f.rest, n, Wrap("reading time stamp", ErrIO(f.err)))
    ELSE ReadSize([e EXCEPT !.TimeStamp = Uint32(f.data)], n + 4,
                  BinaryRead(f.rest, 2))

ReadNodeID(e, f) ==
    IF f.err # "nil"
    THEN ReadResult(e, f.rest, 0, Wrap("reading node ID", ErrIO(f.err)))
    ELSE ReadTimeStamp([e EXCEPT !.NodeID = Uint16(f.data)], 2,
                       BinaryRead(f.rest, 4))

ReadFrom(e, r) == ReadNodeID(e, BinaryRead(r, 2))

\* ------------------------------------------------------------------------
\* Ranking (findings.go): itemOccurrences and itemOccurrenceMap.top
\* ------------------------------------------------------------------------
RECURSIVE StringLess(_, _)
\* x < y on Go strings: byte by byte, a proper prefix comes first
StringLess(x, y) ==
    IF y = <<>> THEN FALSE
    ELSE IF x = <<>> THEN TRUE
    ELSE IF Head(x) # Head(y) THEN Head(x) < Head(y)
    ELSE StringLess(Tail(x), Tail(y))

\* new(itemOccurrence)
NewItemOccurrence == [Item |-> <<>>, Occurrence |-> 0]

\* Less that compares the occurrences only
LessByOccurrence(items, j, k) == items[j].Occurrence > items[k].Occurrence

\* itemOccurrences.Less, the elements counted from 1
Less(items, j, k) ==
    IF items[j].Occurrence = items[k].Occurrence
    THEN StringLess(items[j].Item, items[k].Item)
    ELSE items[j].Occurrence > items[k].Occurrence

\* itemOccurrences.Swap
Swap(items, j, k) == [items EXCEPT ![j] = items[k], ![k] = items[j]]

RECURSIVE insertDown(_, _)
\* the inner loop of the insertion sort: for j > a && Less(j, j-1); j--
insertDown(items, j) ==
    IF j > 1 /\ Less(items, j, j - 1)
    THEN insertDown(Swap(items, j, j - 1), j - 1)
    ELSE items

RECURSIVE insertionSort(_, _)
\* the outer loop of the insertion sort, from element k on
insertionSort(items, k) ==
    IF k > Len(items) THEN items
    ELSE insertionSort(insertDown(items, k), k + 1)

\* sort.Sort on a slice of at most 12 elements is an insertion sort
Sort(items) == insertionSort(items, 2)

\* top that does not fill up the result: at most count elements
topUnpadded(m, order, count) ==
    SubSeq(Sort([j \in 1..Len(order) |-> m[order[j]]]), 1, Min(count, Len(order)))

\* the slice after the loop that appends new(itemOccurrence)
Padded(items, count) ==
    IF Len(items) < count
    THEN items \o [j \in 1..(count - Len(items)) |-> NewItemOccurrence]
    ELSE items

\* itemOccurrenceMap.top(count) on the map m, whose keys the range loop
\* visits in the order given
top(m, order, count) ==
    SubSeq(Padded(Sort([j \in 1..Len(order) |-> m[order[j]]]), count), 1, count)

\* ------------------------------------------------------------------------
\* The findings and their report (findings.go)
\* ------------------------------------------------------------------------
\* the payload keys populate counts: "email", "password", "user-agent",
\* "username"
keyEmail == <<101, 109, 97, 105, 108>>
keyPassword == <<112, 97, 115, 115, 119, 111, 114, 100>>
keyUserAgent == <<117, 115, 101, 114, 45, 97, 103, 101, 110, 116>>
keyUsername == <<117, 115, 101, 114, 110, 97, 109, 101>>

\* fmt.Errorf(format, arg)
Errorf(format, arg) ==
    [labels |-> <<>>, cause |-> format, x |-> 0, y |-> 0, arg |-> arg]

\* an entry that is set to 1 instead of counted up
CountedOnce(m, k, item) == MapPut(m, k, [Item |-> item, Occurrence |-> 1])

\* item.Occurrence++ on the entry of m under k, made if it is missing
Counted(m, k, item) ==
    MapPut(m, k, [Item |-> item,
                  Occurrence |-> (IF k \in DOMAIN m THEN m[k].Occurrence ELSE 0) + 1])

\* m[v] counted up in the map of the protocol, which is made if it is
\* missing
CountedValue(pm, proto, v) ==
    MapPut(pm, proto, Counted(IF proto \in DOMAIN pm THEN pm[proto] ELSE <<>>, v, v))

\* the switch with a default case that tallies the value as a password
populateKeyDefaultPassword(f, e, k) ==
    CASE k = keyEmail -> [f EXCEPT !.Emails = CountedValue(@, e.Protocol, e.Payload[k])]
      [] k = keyUserAgent ->
            [f EXCEPT !.UserAgents = CountedValue(@, e.Protocol, e.Payload[k])]
      [] k = keyUsername ->
            [f EXCEPT !.Usernames = CountedValue(@, e.Protocol, e.Payload[k])]
      [] OTHER -> [f EXCEPT !.Passwords = CountedValue(@, e.Protocol, e.Payload[k])]

\* the body of the loop over the payload: the switch on the key k, whose
\* default case goes on with the next key
populateKey(f, e, k) ==
    CASE k = keyEmail -> [f EXCEPT !.Emails = CountedValue(@, e.Protocol, e.Payload[k])]
      [] k = keyPassword ->
            [f EXCEPT !.Passwords = CountedValue(@, e.Protocol, e.Payload[k])]
      [] k = keyUserAgent ->
            [f EXCEPT !.UserAgents = CountedValue(@, e.Protocol, e.Payload[k])]
      [] k = keyUsername ->
            [f EXCEPT !.Usernames = CountedValue(@, e.Protocol, e.Payload[k])]
      [] OTHER -> f

RECURSIVE populateKeys(_, _, _)
\* for k, v := range event.Payload, the keys in keys still to come
populateKeys(f, e, keys) ==
    IF keys = {} THEN f
    ELSE populateKeys(populateKey(f, e, CHOOSE k \in keys : TRUE), e,
                      keys \ {CHOOSE k \in keys : TRUE})

\* the entry of the submitter of e: the event appended, the count raised
CountedSubmitter(m, e) ==
    MapPut(m, e.IP,
           [Item |-> e.IP,
            Occurrence |-> Counted(m, e.IP, e.IP)[e.IP].Occurrence,
            Events |-> Append(IF e.IP \in DOMAIN m THEN m[e.IP].Events ELSE <<>>, e)])

\* one pass of the loop of populate
populateEvent(f, e) ==
    populateKeys([f EXCEPT !.ByProtocol = Counted(@, e.Protocol, String(e.Protocol)),
                           !.Submitters = CountedSubmitter(@, e)],
                 e, DOMAIN e.Payload)

RECURSIVE populateFrom(_, _, _)
populateFrom(f, evs, k) ==
    IF k > Len(evs) THEN f
    ELSE populateFrom(populateEvent(f, evs[k]), evs, k + 1)

\* findings.populate: the six maps, empty at first
populate(evs) ==
    populateFrom([ByProtocol |-> <<>>, Submitters |-> <<>>, Emails |-> <<>>,
                  Passwords |-> <<>>, UserAgents |-> <<>>, Usernames |-> <<>>],
                 evs, 1)

\* a rendered table: its kind and the total in its last row
Table(kind, proto, total) == [kind |-> kind, proto |-> proto, total |-> total]

NoTable == Table("", "", 0)

\* topPasswordsUsers without the test of the user names
topPasswordsOnly(f, proto) ==
    IF proto \notin DOMAIN f.ByProtocol
    THEN [s |-> NoTable, err |-> Errorf("no %s events", String(proto))]
    ELSE IF proto \notin DOMAIN f.Passwords
    THEN [s |-> NoTable, err |-> Errorf("no %s passwords", String(proto))]
    ELSE [s |-> Table("passwords and users", String(proto),
                      f.ByProtocol[proto].Occurrence),
          err |-> Nil]

topPasswordsUsers(f, proto) ==
    IF proto \notin DOMAIN f.ByProtocol
    THEN [s |-> NoTable, err |-> Errorf("no %s events", String(proto))]
    ELSE IF proto \notin DOMAIN f.Passwords
    THEN [s |-> NoTable, err |-> Errorf("no %s passwords", String(proto))]
    ELSE IF proto \notin DOMAIN f.Usernames
    THEN [s |-> NoTable, err |-> Errorf("no %s users", String(proto))]
    ELSE [s |-> Table("passwords and users", String(proto),
                      f.ByProtocol[proto].Occurrence),
          err |-> Nil]

topUserAgents(f, proto) ==
    IF proto \notin DOMAIN f.ByProtocol
    THEN [s |-> NoTable, err |-> Errorf("no %s events", String(proto))]
    ELSE IF proto \notin DOMAIN f.UserAgents
    THEN [s |-> NoTable, err |-> Errorf("no %s user-agents", String(proto))]
    ELSE [s |-> Table("user-agents", String(proto), f.ByProtocol[proto].Occurrence),
          err |-> Nil]

topEmails(f, proto) ==
    IF proto \notin DOMAIN f.ByProtocol
    THEN [s |-> NoTable, err |-> Errorf("no %s events", String(proto))]
    ELSE IF proto \notin DOMAIN f.Emails
    THEN [s |-> NoTable, err |-> Errorf("no %s emails", String(proto))]
    ELSE [s |-> Table("emails", String(proto), f.ByProtocol[proto].Occurrence),
          err |-> Nil]

RECURSIVE totalEvents(_, _)
\* the sum of the occurrences of the submitters in keys
totalEvents(m, keys) ==
    IF keys = {} THEN 0
    ELSE LET k == CHOOSE k \in keys : TRUE
         IN m[k].Occurrence + totalEvents(m, keys \ {k})

topSubmitters(f) ==
    [s |-> Table("submitters", "", totalEvents(f.Submitters, DOMAIN f.Submitters)),
     err |-> Nil]

submitter(f, ip) ==
    [s |-> Table("submitter", "",
                 IF ip \in DOMAIN f.Submitters THEN f.Submitters[ip].Occurrence ELSE 0),
     err |-> Nil]

\* the rest of report after the sections in buf, the calls in todo still to
\* make: the first error ends it with the empty string
RECURSIVE reportFrom(_, _)
reportFrom(buf, todo) ==
    IF todo = <<>> THEN [s |-> buf, err |-> Nil]
    ELSE IF Head(todo).err # Nil THEN [s |-> <<>>, err |-> Head(todo).err]
    ELSE reportFrom(Append(buf, Head(todo).s), Tail(todo))

\* findings.report on the Events evs: the report is the sequence of its
\* tables
report(evs, ip) ==
    LET f == populate(evs)
    IN reportFrom(<<>>,
                  << topPasswordsUsers(f, SSH), topPasswordsUsers(f, TELNET),
                     topUserAgents(f, HTTP), topEmails(f, SMTP), topSubmitters(f) >>
                      \o (IF ip # <<>> THEN <<submitter(f, ip)>> ELSE <<>>))

\* ------------------------------------------------------------------------
\* Events and datagrams the model draws its inputs from
\* ------------------------------------------------------------------------
\* the UUID of the event in TestEvent_MarshalBinary
TestUUID ==
    [TimeLow |-> <<26212, 12854>>, TimeMid |-> 12345, TimeHiAndVersion |-> 12387,
     ClockSeqHiAndRes |-> 45, ClockSeqLow |-> 53, Node |-> <<48, 100, 99, 45, 49, 49>>]

\* payloads: empty, "a" (no separator), "k:v", "u:a,p:b", "u:a,u:b", "k:a,b"
Payloads ==
    { <<>>, <<97>>, <<107, 58, 118>>, <<117, 58, 97, 44, 112, 58, 98>>,
      <<117, 58, 97, 44, 117, 58, 98>>, <<107, 58, 97, 44, 98>> }

\* an Event whose Payload and IP are the values the decoder derives
MakeEvent(node, ts, sz, uuid, pb, proto, sub, sum) ==
    [NodeID |-> node, TimeStamp |-> ts, Size |-> sz, EventUUID |-> uuid,
     Payload |-> parsePayloadRaw(pb).Payload, Protocol |-> proto,
     Submitter |-> sub, CheckSum |-> sum, PayloadBytes |-> pb,
     IP |-> AddrFrom4(sub)]

\* the same Event with the checksum Valid() accepts
Sealed(e) == [e EXCEPT !.CheckSum = Checksum(marshalBinary(e))]

\* the checksum of e is: "ok" the right one, "inc" the right one plus one,
\* "zero" the constant 0
WithSum(e, kind) ==
    CASE kind = "ok" -> Sealed(e)
      [] kind = "inc" -> [e EXCEPT !.CheckSum = Inc32(Sealed(e).CheckSum)]
      [] kind = "zero" -> [e EXCEPT !.CheckSum = <<0, 0>>]

Events ==
    { WithSum(MakeEvent(node, <<24448, 63872>>, Len(pb) + extra, uuid, pb, proto,
                        sub, <<0, 0>>), kind) :
        node \in {4, 43981}, extra \in {0, 1}, uuid \in {TestUUID, ZeroUUID},
        pb \in Payloads, proto \in {SSH, 4660},
        sub \in {<<12152, 26188>>, <<65535, 65535>>},
        kind \in {"ok", "inc", "zero"} }

\* datagrams a peer may send: two valid frames, a frame with a wrong
\* checksum, a frame cut inside its payload, and a valid frame whose payload
\* holds no separator
FrameA ==
    MarshalBinary(Sealed(MakeEvent(4, <<24448, 63872>>, 3, TestUUID,
                                   <<107, 58, 118>>, SSH, <<12152, 26188>>, <<0, 0>>)))

FrameB ==
    MarshalBinary(Sealed(MakeEvent(7, <<24455, 37120>>, 7, ZeroUUID,
                                   <<117, 58, 97, 44, 112, 58, 98>>, TELNET,
                                   <<27190, 23892>>, <<0, 0>>)))

FrameBadSum ==
    MarshalBinary(WithSum(MakeEvent(7, <<24455, 37120>>, 3, TestUUID,
                                    <<101, 58, 120>>, SMTP, <<27190, 23892>>,
                                    <<0, 0>>), "inc"))

FrameCut == SubSeq(FrameB, 1, 28)

FrameNoSep ==
    MarshalBinary(Sealed(MakeEvent(4, <<24448, 63872>>, 1, TestUUID, <<97>>, HTTP,
                                   <<12152, 26188>>, <<0, 0>>)))

Pool == {FrameA, FrameB, FrameBadSum, FrameCut, FrameNoSep}

\* ------------------------------------------------------------------------
\* State
\* ------------------------------------------------------------------------
VARIABLES
    \* collectEvents (main.go)
    pc,           \* "call", "write", "loop", "done", or "panic" (process ended)
    datagrams,    \* the datagrams argument
    size,         \* the size argument after clamping
    i,            \* loop counter
    events,       \* the local slice of collected events
    ret,          \* the returned [events, err]
    \* the channel chDatagrams
    chMade, chCap, chDatagrams, chClosed,
    \* readDatagrams
    rpc,          \* "none" (not started), "read", "select", or "done"
    b,            \* the datagram held at the select
    \* the context and the connection
    ctxDone, connClosed, writeErr,
    \* history: calls made on the connection, datagrams received and dequeued,
    \* failed receives, the context's state when collectEvents was called
    nReads, nWrites, received, dequeued, readErrs, ctxAtCall,
    \* codec driver: an Event, its encoding, the result of decoding it
    ev, wire, dec, cstep,
    \* lexer driver: a payload string, the lexer at the end of its run, the
    \* result of parsePayloadRaw
    lexIn, lexed, parsed, lstep,
    \* ranking driver: an occurrence map, the order in which range visits its
    \* keys, the count asked for, the result of top
    occMap, visitOrder, topCount, topResult, tstep,
    \* label driver: a Protocol value and the result of its String method
    protoArg, protoLabel, protoStep,
    \* UUID driver: a UUID, the bytes of the source, the result of
    \* UUID.ReadFrom on them, the result of Event.ReadFrom on a frame that
    \* holds them after its first three fields
    uid, uwire, udec, uframe, ustep,
    \* report driver: the Events of the findings, the address report is
    \* called with, the result of report
    \* and the six maps populate has made
    fEvents, ipDetail, reportRet, fstep, fMaps,
    \* the lexer goroutine and parsePayloadRaw: the lexer and its next state,
    \* the tokens handed over, where the goroutine is ("run", "done",
    \* "panic"), how often the channel was closed, where parsePayloadRaw is
    \* ("range", "returned"), its key and its map, and the last token it got
    golex, gsent, gpc, gcloses, ppc, pkey, ppayload, plast

pipeVars ==
    <<pc, datagrams, size, i, events, ret, chMade, chCap, chDatagrams, chClosed,
      rpc, b, ctxDone, connClosed, writeErr, nReads, nWrites, received,
      dequeued, readErrs, ctxAtCall>>

codecVars == <<ev, wire, dec, cstep>>

lexVars == <<lexIn, lexed, parsed, lstep>>

topVars == <<occMap, visitOrder, topCount, topResult, tstep>>

protoVars == <<protoArg, protoLabel, protoStep>>

uuidVars == <<uid, uwire, udec, uframe, ustep>>

findVars == <<fEvents, ipDetail, reportRet, fstep, fMaps>>

goVars == <<golex, gsent, gpc, gcloses, ppc, pkey, ppayload, plast>>

vars == <<pipeVars, codecVars, lexVars, topVars, protoVars, uuidVars, findVars, goVars>>

\* the variables an operation of one part leaves alone
notPipe == <<codecVars, lexVars, topVars, protoVars, uuidVars, findVars, goVars>>
notCodec == <<pipeVars, lexVars, topVars, protoVars, uuidVars, findVars, goVars>>
notLex == <<pipeVars, codecVars, topVars, protoVars, uuidVars, findVars, goVars>>
notTop == <<pipeVars, codecVars, lexVars, protoVars, uuidVars, findVars, goVars>>
notProto == <<pipeVars, codecVars, lexVars, topVars, uuidVars, findVars, goVars>>
notUUID == <<pipeVars, codecVars, lexVars, topVars, protoVars, findVars, goVars>>
notFind == <<pipeVars, codecVars, lexVars, topVars, protoVars, uuidVars, goVars>>
notGo ==
    <<pipeVars, codecVars, lexVars, topVars, protoVars, uuidVars, findVars>>

minDatagramBytes == 512
maxDatagramBytes == 65535

\* arguments collectEvents is called with
DatagramArgs == -1..MaxDatagrams
SizeArgs == {511, 512, 65536}
\* the -cache flag: 0, 1 and 2^43, as int values
CacheArgs == {Int64(0), Int64(1), <<0, 0, 8, 0, 0, 0, 0, 0>>}

NoRet == [events |-> <<>>, err |-> Nil]

PipeInit ==
    /\ pc = "call"
    /\ datagrams = 0
    /\ size = 0
    /\ i = 0
    /\ events = <<>>
    /\ ret = NoRet
    /\ chMade = FALSE
    /\ chCap = 0
    /\ chDatagrams = <<>>
    /\ chClosed = FALSE
    /\ rpc = "none"
    /\ b = <<>>
    /\ ctxDone \in BOOLEAN
    /\ ctxAtCall = ctxDone
    /\ connClosed = FALSE
    /\ writeErr = FALSE
    /\ nReads = 0
    /\ nWrites = 0
    /\ received = <<>>
    /\ dequeued = <<>>
    /\ readErrs = 0

CodecIdle ==
    /\ ev = ZeroEvent
    /\ wire = <<>>
    /\ dec = ReadResult(ZeroEvent, <<>>, 0, Nil)
    /\ cstep = "idle"

LexIdle ==
    /\ lexIn = <<>>
    /\ lexed = NewLexer(<<>>)
    /\ parsed = Parsed(NewLexer(<<>>))
    /\ lstep = "idle"

TopIdle ==
    /\ occMap = <<>>
    /\ visitOrder = <<>>
    /\ topCount = 0
    /\ topResult = <<>>
    /\ tstep = "idle"

ProtoIdle ==
    /\ protoArg = 0
    /\ protoLabel = ""
    /\ protoStep = "idle"

UUIDIdle ==
    /\ uid = ZeroUUID
    /\ uwire = <<>>
    /\ udec = UUIDResult(ZeroUUID, <<>>, 0, Nil)
    /\ uframe = ReadResult(ZeroEvent, <<>>, 0, Nil)
    /\ ustep = "idle"

FindIdle ==
    /\ fEvents = <<>>
    /\ ipDetail = <<>>
    /\ reportRet = [s |-> <<>>, err |-> Nil]
    /\ fstep = "idle"
    /\ fMaps = populate(<<>>)

GoIdle ==
    /\ golex = [l |-> NewLexer(<<>>), state |-> "nil"]
    /\ gsent = 0
    /\ gpc = "idle"
    /\ gcloses = 0
    /\ ppc = "idle"
    /\ pkey = <<>>
    /\ ppayload = <<>>
    /\ plast = 0

\* ------------------------------------------------------------------------
\* collectEvents
\* ------------------------------------------------------------------------
Running == pc # "panic"

\* the size check with its lower bound only
ClampSizeBelow(sz) == IF sz < minDatagramBytes THEN minDatagramBytes ELSE sz

\* the switch cases on size: the size readDatagrams is started with
ClampSize(sz) ==
    IF sz < minDatagramBytes THEN minDatagramBytes
    ELSE IF sz > maxDatagramBytes THEN maxDatagramBytes
    ELSE sz

\* if cache < 1 { cache = 1 }
ClampCache(cache) == IF Negative(cache) \/ cache = Int64(0) THEN Int64(1) ELSE cache

\* (cache << 20) / size, after cache < 1 became 1
ChanCap(cache, sz) == Quo(Shl20(ClampCache(cache)), sz)

\* make(chan io.Reader, n) panics for n < 0 and for a buffer beyond the
\* largest allocation (n >= 2^44 elements of 16 bytes)
makechanPanics(n) ==
    \/ n.neg /\ n.mag # Int64(0)
    \/ n.mag[1] # 0 \/ n.mag[2] # 0 \/ n.mag[3] >= 16

\* make(chan io.Reader, (cache<<20)/size) and the go statement, or the
\* panic of make; next is where collectEvents goes on
MakeQueue(cache, sz, next_pc) ==
    IF makechanPanics(ChanCap(cache, sz))
    THEN /\ pc' = "panic"
         /\ UNCHANGED <<chMade, chCap, rpc>>
    ELSE /\ chMade' = TRUE
         /\ chCap' = ToInt(ChanCap(cache, sz).mag)
         /\ rpc' = "read"
         /\ pc' = next_pc

\* collectEvents is entered but rejects only a count below 0
CallAcceptsZero(dg, sz, cache) ==
    /\ pc = "call"
    /\ datagrams' = dg
    /\ IF dg < 0
       THEN /\ pc' = "done"
            /\ ret' = [events |-> <<>>, err |-> ErrIO("no datagrams read from the server")]
            /\ UNCHANGED <<size, chMade, chCap, rpc>>
       ELSE /\ size' = ClampSize(sz)
            /\ MakeQueue(cache, ClampSize(sz), "write")
            /\ ret' = ret
    /\ UNCHANGED <<i, events, chDatagrams, chClosed, b, ctxDone, connClosed,
                   writeErr, nReads, nWrites, received, dequeued, readErrs,
                   ctxAtCall, notPipe>>

\* collectEvents goes to its loop without writing the introduction
CallNoIntroduction(dg, sz, cache) ==
    /\ pc = "call"
    /\ datagrams' = dg
    /\ IF dg < 1
       THEN /\ pc' = "done"
            /\ ret' = [events |-> <<>>, err |-> ErrIO("no datagrams read from the server")]
            /\ UNCHANGED <<size, chMade, chCap, rpc, i>>
       ELSE /\ size' = ClampSize(sz)
            /\ MakeQueue(cache, ClampSize(sz), "loop")
            /\ i' = 1
            /\ ret' = ret
    /\ UNCHANGED <<events, chDatagrams, chClosed, b, ctxDone, connClosed,
                   writeErr, nReads, nWrites, received, dequeued, readErrs,
                   ctxAtCall, notPipe>>

\* collectEvents up to and including the go statement that starts
\* readDatagrams: the argument checks, the channel, the reader task
Call(dg, sz, cache) ==
    /\ pc = "call"
    /\ datagrams' = dg
    /\ IF dg < 1
       THEN /\ pc' = "done"
            /\ ret' = [events |-> <<>>, err |-> ErrIO("no datagrams read from the server")]
            /\ UNCHANGED <<size, chMade, chCap, rpc>>
       ELSE /\ size' = ClampSize(sz)
            /\ MakeQueue(cache, ClampSize(sz), "write")
            /\ ret' = ret
    /\ UNCHANGED <<i, events, chDatagrams, chClosed, b, ctxDone, connClosed,
                   writeErr, nReads, nWrites, received, dequeued, readErrs,
                   ctxAtCall, notPipe>>

\* the introduction is written and its error is ignored
WriteIgnoresError(failed) ==
    /\ Running
    /\ pc = "write"
    /\ nWrites' = nWrites + 1
    /\ writeErr' = failed
    /\ pc' = "loop"
    /\ i' = 1
    /\ UNCHANGED <<datagrams, size, events, ret, chMade, chCap, chDatagrams,
                   chClosed, rpc, b, ctxDone, connClosed, nReads, received,
                   dequeued, readErrs, ctxAtCall, notPipe>>

\* conn.Write of the introduction; failed is the outcome of the write
Write(failed) ==
    /\ Running
    /\ pc = "write"
    /\ nWrites' = nWrites + 1
    /\ writeErr' = failed
    /\ IF failed
       THEN /\ pc' = "done"
            /\ ret' = [events |-> <<>>,
                       err |-> Wrap("writing introduction", ErrIO("write error"))]
            /\ i' = i
       ELSE /\ pc' = "loop"
            /\ i' = 1
            /\ ret' = ret
    /\ UNCHANGED <<datagrams, size, events, chMade, chCap, chDatagrams,
                   chClosed, rpc, b, ctxDone, connClosed, nReads, received,
                   dequeued, readErrs, ctxAtCall, notPipe>>

\* the end of a loop iteration that collected evs: i++ and the loop test
NextIteration(evs) ==
    /\ events' = evs
    /\ i' = i + 1
    /\ IF i + 1 <= datagrams
       THEN pc' = "loop" /\ ret' = ret
       ELSE pc' = "done" /\ ret' = [events |-> evs, err |-> Nil]

\* case <-ctx.Done(): break OUTER
SelectDone ==
    /\ Running
    /\ pc = "loop"
    /\ i <= datagrams
    /\ ctxDone
    /\ pc' = "done"
    /\ ret' = [events |-> events, err |-> Nil]
    /\ UNCHANGED <<datagrams, size, i, events, chMade, chCap, chDatagrams,
                   chClosed, rpc, b, ctxDone, connClosed, writeErr, nReads,
                   nWrites, received, dequeued, readErrs, ctxAtCall, notPipe>>

\* the receive sees the channel closed as soon as it is closed, also with
\* datagrams still buffered
SelectClosedEarly ==
    /\ Running
    /\ pc = "loop"
    /\ i <= datagrams
    /\ chClosed
    /\ pc' = "done"
    /\ ret' = [events |-> events, err |-> Nil]
    /\ UNCHANGED <<datagrams, size, i, events, chMade, chCap, chDatagrams,
                   chClosed, rpc, b, ctxDone, connClosed, writeErr, nReads,
                   nWrites, received, dequeued, readErrs, ctxAtCall, notPipe>>

\* case r, ok = <-chDatagrams with ok false: break OUTER
SelectClosed ==
    /\ Running
    /\ pc = "loop"
    /\ i <= datagrams
    /\ chClosed
    /\ chDatagrams = <<>>
    /\ pc' = "done"
    /\ ret' = [events |-> events, err |-> Nil]
    /\ UNCHANGED <<datagrams, size, i, events, chMade, chCap, chDatagrams,
                   chClosed, rpc, b, ctxDone, connClosed, writeErr, nReads,
                   nWrites, received, dequeued, readErrs, ctxAtCall, notPipe>>

\* the loop body without the Valid() test
CollectUnchecked(d) ==
    IF d.panicked
    THEN pc' = "panic" /\ UNCHANGED <<i, events, ret>>
    ELSE IF d.err # Nil
    THEN /\ pc' = "done"
         /\ ret' = [events |-> <<>>, err |-> d.err]
         /\ UNCHANGED <<i, events>>
    ELSE NextIteration(Append(events, d.e))

\* the loop body carrying on after a decode error
CollectSkipsErrors(d) ==
    IF d.panicked
    THEN pc' = "panic" /\ UNCHANGED <<i, events, ret>>
    ELSE IF d.err # Nil \/ ~Valid(d.e) THEN NextIteration(events)
    ELSE NextIteration(Append(events, d.e))

\* the loop body with an invalid event not counted as an iteration
CollectRetriesInvalid(d) ==
    IF d.panicked
    THEN pc' = "panic" /\ UNCHANGED <<i, events, ret>>
    ELSE IF d.err # Nil
    THEN /\ pc' = "done"
         /\ ret' = [events |-> <<>>, err |-> d.err]
         /\ UNCHANGED <<i, events>>
    ELSE IF ~Valid(d.e) THEN pc' = "loop" /\ UNCHANGED <<i, events, ret>>
    ELSE NextIteration(Append(events, d.e))

\* what the loop body does with the result d of ReadFrom
Collect(d) ==
    IF d.panicked
    THEN pc' = "panic" /\ UNCHANGED <<i, events, ret>>
    ELSE IF d.err # Nil
    THEN /\ pc' = "done"
         /\ ret' = [events |-> <<>>, err |-> d.err]
         /\ UNCHANGED <<i, events>>
    ELSE IF ~Valid(d.e) THEN NextIteration(events)
    ELSE NextIteration(Append(events, d.e))

\* case r, ok = <-chDatagrams with ok true, and the rest of the iteration
SelectRecv ==
    /\ Running
    /\ pc = "loop"
    /\ i <= datagrams
    /\ chDatagrams # <<>>
    /\ chDatagrams' = Tail(chDatagrams)
    /\ dequeued' = Append(dequeued, Head(chDatagrams))
    /\ Collect(ReadFrom(ZeroEvent, Head(chDatagrams)))
    /\ UNCHANGED <<datagrams, size, chMade, chCap, chClosed, rpc, b, ctxDone,
                   connClosed, writeErr, nReads, nWrites, received, readErrs,
                   ctxAtCall, notPipe>>

\* ------------------------------------------------------------------------
\* readDatagrams
\* ------------------------------------------------------------------------
\* conn.Read returns the datagram d, cut to the buffer's size
ReadDatagram(d) ==
    /\ Running
    /\ rpc = "read"
    /\ ~connClosed
    /\ Len(received) < MaxRecv
    /\ nReads' = nReads + 1
    /\ b' = SubSeq(d, 1, Min(Len(d), size))
    /\ received' = Append(received, SubSeq(d, 1, Min(Len(d), size)))
    /\ rpc' = "select"
    /\ UNCHANGED <<pc, datagrams, size, i, events, ret, chMade, chCap,
                   chDatagrams, chClosed, ctxDone, connClosed, writeErr,
                   nWrites, dequeued, readErrs, ctxAtCall, notPipe>>

\* conn.Read returns net.ErrClosed and the channel is closed, but the loop
\* of the reader goes on
ReadClosedStays ==
    /\ Running
    /\ rpc = "read"
    /\ connClosed
    /\ nReads < MaxRecv + 2
    /\ nReads' = nReads + 1
    /\ chClosed' = TRUE
    /\ UNCHANGED <<pc, datagrams, size, i, events, ret, chMade, chCap,
                   chDatagrams, rpc, b, ctxDone, connClosed, writeErr, nWrites,
                   received, dequeued, readErrs, ctxAtCall, notPipe>>

\* conn.Read returns net.ErrClosed: return, and the deferred close
ReadClosed ==
    /\ Running
    /\ rpc = "read"
    /\ connClosed
    /\ nReads' = nReads + 1
    /\ rpc' = "done"
    /\ chClosed' = TRUE
    /\ UNCHANGED <<pc, datagrams, size, i, events, ret, chMade, chCap,
                   chDatagrams, b, ctxDone, connClosed, writeErr, nWrites,
                   received, dequeued, readErrs, ctxAtCall, notPipe>>

\* conn.Read returns another error and the reader returns, closing the
\* channel
ReadErrorReturns ==
    /\ Running
    /\ rpc = "read"
    /\ ~connClosed
    /\ readErrs < MaxReadErrs
    /\ nReads' = nReads + 1
    /\ readErrs' = readErrs + 1
    /\ rpc' = "done"
    /\ chClosed' = TRUE
    /\ UNCHANGED <<pc, datagrams, size, i, events, ret, chMade, chCap,
                   chDatagrams, b, ctxDone, connClosed, writeErr, nWrites,
                   received, dequeued, ctxAtCall, notPipe>>

\* conn.Read returns another error: it is logged and the loop continues
ReadError ==
    /\ Running
    /\ rpc = "read"
    /\ ~connClosed
    /\ readErrs < MaxReadErrs
    /\ nReads' = nReads + 1
    /\ readErrs' = readErrs + 1
    /\ UNCHANGED <<pc, datagrams, size, i, events, ret, chMade, chCap,
                   chDatagrams, chClosed, rpc, b, ctxDone, connClosed,
                   writeErr, nWrites, received, dequeued, ctxAtCall, notPipe>>

\* the datagram is put at the front of the queue
SendInFront ==
    /\ Running
    /\ rpc = "select"
    /\ Len(chDatagrams) < chCap
    /\ chDatagrams' = <<b>> \o chDatagrams
    /\ b' = <<>>
    /\ rpc' = "read"
    /\ UNCHANGED <<pc, datagrams, size, i, events, ret, chMade, chCap,
                   chClosed, ctxDone, connClosed, writeErr, nReads, nWrites,
                   received, dequeued, readErrs, ctxAtCall, notPipe>>

\* the datagram is thrown away when the queue is full
SendOrDrop ==
    /\ Running
    /\ rpc = "select"
    /\ chDatagrams' = IF Len(chDatagrams) < chCap
                       THEN Append(chDatagrams, b) ELSE chDatagrams
    /\ b' = <<>>
    /\ rpc' = "read"
    /\ UNCHANGED <<pc, datagrams, size, i, events, ret, chMade, chCap,
                   chClosed, ctxDone, connClosed, writeErr, nReads, nWrites,
                   received, dequeued, readErrs, ctxAtCall, notPipe>>

\* case chDatagrams <- bytes.NewBuffer(b[:n]), the channel having a buffer
Send ==
    /\ Running
    /\ rpc = "select"
    /\ Len(chDatagrams) < chCap
    /\ chDatagrams' = Append(chDatagrams, b)
    /\ b' = <<>>
    /\ rpc' = "read"
    /\ UNCHANGED <<pc, datagrams, size, i, events, ret, chMade, chCap,
                   chClosed, ctxDone, connClosed, writeErr, nReads, nWrites,
                   received, dequeued, readErrs, ctxAtCall, notPipe>>

\* the reader returns on cancellation and leaves the channel open
ReaderDoneLeavesOpen ==
    /\ Running
    /\ rpc = "select"
    /\ ctxDone
    /\ rpc' = "done"
    /\ b' = <<>>
    /\ UNCHANGED <<pc, datagrams, size, i, events, ret, chMade, chCap,
                   chDatagrams, chClosed, ctxDone, connClosed, writeErr,
                   nReads, nWrites, received, dequeued, readErrs, ctxAtCall,
                   notPipe>>

\* case <-ctx.Done() in readDatagrams: return, and the deferred close
ReaderDone ==
    /\ Running
    /\ rpc = "select"
    /\ ctxDone
    /\ rpc' = "done"
    /\ chClosed' = TRUE
    /\ b' = <<>>
    /\ UNCHANGED <<pc, datagrams, size, i, events, ret, chMade, chCap,
                   chDatagrams, ctxDone, connClosed, writeErr, nReads, nWrites,
                   received, dequeued, readErrs, ctxAtCall, notPipe>>

\* ------------------------------------------------------------------------
\* The environment: cancel() of the context, Close() of the connection
\* ------------------------------------------------------------------------
Cancel ==
    /\ pc # "call"
    /\ ~ctxDone
    /\ ctxDone' = TRUE
    /\ UNCHANGED <<pc, datagrams, size, i, events, ret, chMade, chCap,
                   chDatagrams, chClosed, rpc, b, connClosed, writeErr, nReads,
                   nWrites, received, dequeued, readErrs, ctxAtCall, notPipe>>

CloseConn ==
    /\ ~connClosed
    /\ connClosed' = TRUE
    /\ UNCHANGED <<pc, datagrams, size, i, events, ret, chMade, chCap,
                   chDatagrams, chClosed, rpc, b, ctxDone, writeErr, nReads,
                   nWrites, received, dequeued, readErrs, ctxAtCall, notPipe>>

Init == PipeInit /\ CodecIdle /\ LexIdle /\ TopIdle /\ ProtoIdle /\ UUIDIdle /\ FindIdle /\ GoIdle

Next ==
    \/ \E dg \in DatagramArgs, sz \in SizeArgs, cache \in CacheArgs : Call(dg, sz, cache)
    \/ \E failed \in BOOLEAN : Write(failed)
    \/ SelectDone
    \/ SelectClosed
    \/ SelectRecv
    \/ \E d \in Pool : ReadDatagram(d)
    \/ ReadClosed
    \/ ReadError
    \/ Send
    \/ ReaderDone
    \/ Cancel
    \/ CloseConn

Spec == Init /\ [][Next]_vars

\* ------------------------------------------------------------------------
\* Codec driver: an Event is encoded, the encoding is decoded into a new
\* Event, and the checksum of the decoded Event is changed
\* ------------------------------------------------------------------------
PipeIdle == PipeInit /\ ctxDone = FALSE

CodecInit ==
    /\ ev \in Events
    /\ wire = <<>>
    /\ dec = ReadResult(ZeroEvent, <<>>, 0, Nil)
    /\ cstep = "new"

Marshal ==
    /\ cstep = "new"
    /\ wire' = MarshalBinary(ev)
    /\ cstep' = "marshalled"
    /\ UNCHANGED <<ev, dec, notCodec>>

\* the frame is cut to its first t bytes before it is decoded
Truncate(t) ==
    /\ cstep = "marshalled"
    /\ t < Len(wire)
    /\ wire' = SubSeq(wire, 1, t)
    /\ cstep' = "cut"
    /\ UNCHANGED <<ev, dec, notCodec>>

Decode ==
    /\ cstep \in {"marshalled", "cut"}
    /\ dec' = ReadFrom(ZeroEvent, wire)
    /\ cstep' = "decoded"
    /\ UNCHANGED <<ev, wire, notCodec>>

\* e.CheckSum = sum on the decoded Event, sum being another value
Tamper(sum) ==
    /\ cstep = "decoded"
    /\ ~dec.panicked
    /\ dec.err = Nil
    /\ sum # dec.e.CheckSum
    /\ dec' = [dec EXCEPT !.e.CheckSum = sum]
    /\ cstep' = "tampered"
    /\ UNCHANGED <<ev, wire, notCodec>>

CodecNext ==
    \/ Marshal
    \/ Decode
    \/ \E sum \in {Inc32(dec.e.CheckSum), Not32(dec.e.CheckSum), <<0, 0>>} : Tamper(sum)

InitCodec == CodecInit /\ PipeIdle /\ LexIdle /\ TopIdle /\ ProtoIdle /\ UUIDIdle /\ FindIdle /\ GoIdle

SpecCodec == InitCodec /\ [][CodecNext]_vars

\* truncated frames: a valid Event is encoded, cut and decoded
InitTrunc == InitCodec /\ ev.Size = Len(ev.PayloadBytes) /\ Valid(ev)

\* an Event that was decoded before: no field has its zero value or a value
\* of the frames under test
UsedEvent ==
    [NodeID |-> 65535, TimeStamp |-> <<65535, 65534>>, Size |-> 3,
     EventUUID |-> [ZeroUUID EXCEPT !.TimeLow = <<1, 2>>, !.TimeMid = 3,
                                    !.TimeHiAndVersion = 4, !.ClockSeqHiAndRes = 5,
                                    !.ClockSeqLow = 6, !.Node = <<7, 8, 9, 10, 11, 12>>],
     Payload |-> MapPut(<<>>, <<120>>, <<121>>), Protocol |-> 65533,
     Submitter |-> <<65532, 65531>>, CheckSum |-> <<65530, 65529>>,
     PayloadBytes |-> <<120, 58, 121>>, IP |-> AddrFrom4(<<65532, 65531>>)]

\* e.ReadFrom(r) on an Event that was decoded before
DecodeUsed ==
    /\ cstep \in {"marshalled", "cut"}
    /\ dec' = ReadFrom(UsedEvent, wire)
    /\ cstep' = "redecoded"
    /\ UNCHANGED <<ev, wire, notCodec>>

TruncNext ==
    \/ Marshal
    \/ \E t \in 0..(Len(wire) - 1) : Truncate(t)
    \/ Decode
    \/ DecodeUsed

SpecTrunc == InitTrunc /\ [][TruncNext]_vars

\* ------------------------------------------------------------------------
\* Properties of the codec
\* ------------------------------------------------------------------------
\* the big-endian bytes of a 16-bit and of a 32-bit value
BE16(v) == <<v \div 256, v % 256>>
BE32(v) == <<v[1] \div 256, v[1] % 256, v[2] \div 256, v[2] % 256>>

\* the encoding of all fields of e but CheckSum, in the order of the frame
FieldBytes(e) ==
    BE16(e.NodeID) \o BE32(e.TimeStamp) \o BE16(e.Size)
        \o BE32(e.EventUUID.TimeLow) \o BE16(e.EventUUID.TimeMid)
        \o BE16(e.EventUUID.TimeHiAndVersion)
        \o <<e.EventUUID.ClockSeqHiAndRes, e.EventUUID.ClockSeqLow>>
        \o e.EventUUID.Node \o e.PayloadBytes \o BE16(e.Protocol)
        \o BE32(e.Submitter)

Decoded == cstep = "decoded" /\ ~dec.panicked /\ dec.err = Nil

\* C1: round trip. For every Event ev whose Size is len(PayloadBytes) (and
\* whose Payload and IP are the derived values, as for every Event of
\* Events), ReadFrom on MarshalBinary(ev) succeeds with a nil error, returns
\* n = 34 + Size and yields an Event equal to ev in every field.
C1_RoundTrip ==
    (cstep = "decoded" /\ ev.Size = Len(ev.PayloadBytes))
        => /\ ~dec.panicked
           /\ dec.err = Nil
           /\ dec.n = 34 + ev.Size
           /\ dec.e = ev

\* the round trip of the Events whose payload holds a separator
RoundTripWithSeparator ==
    (cstep = "decoded" /\ ev.Size = Len(ev.PayloadBytes)
        /\ \E k \in 1..Len(ev.PayloadBytes) : ev.PayloadBytes[k] = separator)
        => /\ ~dec.panicked
           /\ dec.err = Nil
           /\ dec.n = 34 + ev.Size
           /\ dec.e = ev

\* C2: Valid() is true exactly when CheckSum is the CRC-32/IEEE of the
\* encoding of the other fields in frame order; for an Event decoded from a
\* frame that is the checksum of the frame bytes before the last 4; and
\* changing only CheckSum of a valid Event makes Valid() false.
C2_ValidIsFrameChecksum ==
    /\ Valid(ev) <=> (ev.CheckSum = Checksum(FieldBytes(ev)))
    /\ Decoded =>
          (Valid(dec.e) <=> (Checksum(SubSeq(wire, 1, dec.n - 4))
                                = Uint32(SubSeq(wire, dec.n - 3, dec.n))))
    /\ (cstep = "tampered" /\ Valid(ReadFrom(ZeroEvent, wire).e)) => ~Valid(dec.e)

\* a valid decoded Event whose checksum was then changed
C2_Witness == cstep = "tampered" /\ Valid(ReadFrom(ZeroEvent, wire).e)

\* ------------------------------------------------------------------------
\* Properties of the ingestion pipeline
\* ------------------------------------------------------------------------
\* ReadFrom on each datagram of the pool, computed once
DecodedPool ==
    (FrameA :> ReadFrom(ZeroEvent, FrameA))
    @@ (FrameB :> ReadFrom(ZeroEvent, FrameB))
    @@ (FrameBadSum :> ReadFrom(ZeroEvent, FrameBadSum))
    @@ (FrameCut :> ReadFrom(ZeroEvent, FrameCut))
    @@ (FrameNoSep :> ReadFrom(ZeroEvent, FrameNoSep))

\* what the loop body gets from ReadFrom on the datagram d
DecodeOf(d) == DecodedPool[d]

\* Valid() of the Event each datagram of the pool decodes to, computed once
ValidPool ==
    (DecodeOf(FrameA).e :> Valid(DecodeOf(FrameA).e))
    @@ (DecodeOf(FrameB).e :> Valid(DecodeOf(FrameB).e))
    @@ (DecodeOf(FrameBadSum).e :> Valid(DecodeOf(FrameBadSum).e))
    @@ (DecodeOf(FrameCut).e :> Valid(DecodeOf(FrameCut).e))
    @@ (DecodeOf(FrameNoSep).e :> Valid(DecodeOf(FrameNoSep).e))

\* e.Valid(), looked up for the Events of the pool
IsValid(e) == IF e \in DOMAIN ValidPool THEN ValidPool[e] ELSE Valid(e)

\* d decodes without error and without panic
Decodes(d) == ~DecodeOf(d).panicked /\ DecodeOf(d).err = Nil

RECURSIVE ValidEventsOf(_)
\* the valid events among the datagrams, in the order of the datagrams
ValidEventsOf(ds) ==
    IF ds = <<>> THEN <<>>
    ELSE IF Decodes(Head(ds)) /\ IsValid(DecodeOf(Head(ds)).e)
    THEN <<DecodeOf(Head(ds)).e>> \o ValidEventsOf(Tail(ds))
    ELSE ValidEventsOf(Tail(ds))

IsPrefix(p, q) == Len(p) <= Len(q) /\ p = SubSeq(q, 1, Len(p))

ErrNoDatagrams == ErrIO("no datagrams read from the server")
ErrIntroduction == Wrap("writing introduction", ErrIO("write error"))

\* C3: the datagrams the consumer dequeued, followed by those waiting in the
\* queue, are in order and without gap or repetition the first datagrams the
\* reader received, and a slice returned
\* with a nil error holds exactly the valid events among them, in that order.
C3_ReceiveOrder ==
    /\ IsPrefix(dequeued \o chDatagrams, received)
    /\ (pc = "done" /\ ret.err = Nil) => ret.events = ValidEventsOf(dequeued)

\* two different valid events were returned without cancellation
C3_Witness ==
    /\ pc = "done"
    /\ ~ctxDone
    /\ ret.err = Nil
    /\ Len(ret.events) = 2
    /\ ret.events[1] # ret.events[2]

\* C4: when the context is cancelled before collectEvents is called (with
\* datagrams >= 1 and a successful introduction), collectEvents returns an
\* empty slice and a nil error.
C4_CancelledBeforeCall ==
    (ctxAtCall /\ pc = "done" /\ datagrams >= 1 /\ ~writeErr)
        => (ret.events = <<>> /\ ret.err = Nil)

\* C5: when collectEvents returns a nil error without cancellation before
\* `datagrams` datagrams were dequeued, the reader has closed the channel,
\* every datagram the reader enqueued was dequeued first, and the result
\* holds the valid events among them.
C5_DrainBeforeClosed ==
    (pc = "done" /\ datagrams >= 1 /\ ret.err = Nil /\ ~ctxDone
        /\ Len(dequeued) < datagrams)
        => /\ chClosed
           /\ chDatagrams = <<>>
           /\ dequeued = received
           /\ ret.events = ValidEventsOf(received)

\* the channel was closed after one datagram, which was collected
C5_Witness ==
    /\ pc = "done"
    /\ ~ctxDone
    /\ ret.err = Nil
    /\ chClosed
    /\ datagrams = 2
    /\ Len(received) = 1
    /\ Len(ret.events) = 1

\* C6: a datagram on which ReadFrom fails is the last one dequeued, and
\* collectEvents has returned a nil slice with exactly that error.
C6_DecodeErrorAborts ==
    \A k \in 1..Len(dequeued) :
        DecodeOf(dequeued[k]).err # Nil
            => /\ k = Len(dequeued)
               /\ pc = "done"
               /\ ret = [events |-> <<>>, err |-> DecodeOf(dequeued[k]).err]

\* a decode error after a valid event was collected
C6_Witness ==
    /\ Len(dequeued) = 2
    /\ DecodeOf(dequeued[2]).err # Nil
    /\ events # <<>>
    /\ pc = "done"

\* C7: every collected event satisfies Valid(), and a stream of datagrams
\* that all decode but fail Valid() gives an empty result and a nil error.
C7_OnlyValidCollected ==
    /\ \A k \in 1..Len(events) : IsValid(events[k])
    /\ \A k \in 1..Len(ret.events) : IsValid(ret.events[k])
    /\ (pc = "done" /\ dequeued # <<>>
          /\ \A k \in 1..Len(dequeued) :
                Decodes(dequeued[k]) /\ ~IsValid(DecodeOf(dequeued[k]).e))
          => ret = [events |-> <<>>, err |-> Nil]

\* two datagrams with a wrong checksum were dequeued and nothing else
C7_Witness ==
    /\ pc = "done"
    /\ Len(dequeued) = 2
    /\ \A k \in 1..2 : Decodes(dequeued[k]) /\ ~IsValid(DecodeOf(dequeued[k]).e)
    /\ ret.events = <<>>

\* C8 as claimed: no receive is issued on the connection before the write
\* of the introduction has returned.
C8_HandshakeBeforeReceive == nReads > 0 => nWrites > 0

\* C8 as amended: the reader task is started before the introduction is
\* written, and the introduction was written once, successfully, before the
\* consumer loop dequeues a datagram.
C8_HandshakeBeforeDequeue ==
    /\ nWrites > 0 => rpc # "none"
    /\ dequeued # <<>> => (nWrites = 1 /\ ~writeErr)

\* a datagram that the reader received before the introduction was written
\* has been dequeued
C8_Witness == dequeued # <<>> /\ nWrites = 1 /\ nReads > 0

\* C9: the introduction is written at most once; if the write fails,
\* collectEvents has returned a nil slice and the wrapped write error, and
\* no datagram was dequeued.
C9_WriteErrorIsFatal ==
    /\ nWrites <= 1
    /\ writeErr
          => /\ nWrites = 1
             /\ pc = "done"
             /\ ret = [events |-> <<>>, err |-> ErrIntroduction]
             /\ dequeued = <<>>

\* the write failed while a datagram was waiting in the queue
C9_Witness == writeErr /\ chDatagrams # <<>> /\ pc = "done"

\* C10: a call with datagrams < 1 returns an error and a nil slice, and has
\* started no reader, made no channel, written and read nothing.
C10_NoDatagramsRequested ==
    (pc # "call" /\ datagrams < 1)
        => /\ pc = "done"
           /\ ret = [events |-> <<>>, err |-> ErrNoDatagrams]
           /\ rpc = "none"
           /\ ~chMade
           /\ nWrites = 0
           /\ nReads = 0

\* collectEvents has returned from a call with datagrams = 0
C10_Witness == pc = "done" /\ datagrams = 0 /\ ret.err = ErrNoDatagrams

\* ------------------------------------------------------------------------
\* Properties of truncated frames
\* ------------------------------------------------------------------------
\* the layout of a frame whose payload has S bytes: label of the field's
\* error, offset, width, and whether it is a fixed-width integer field
Fields(S) ==
    << [label |-> "reading node ID", start |-> 0, width |-> 2, fixed |-> TRUE],
       [label |-> "reading time stamp", start |-> 2, width |-> 4, fixed |-> TRUE],
       [label |-> "reading size", start |-> 6, width |-> 2, fixed |-> TRUE],
       [label |-> "reading UUID", start |-> 8, width |-> 16, fixed |-> FALSE],
       [label |-> "reading payload", start |-> 24, width |-> S, fixed |-> FALSE],
       [label |-> "reading protocol", start |-> 24 + S, width |-> 2, fixed |-> TRUE],
       [label |-> "reading submitter", start |-> 26 + S, width |-> 4, fixed |-> TRUE],
       [label |-> "reading checksum", start |-> 30 + S, width |-> 4, fixed |-> TRUE] >>

\* the first field that is not completely present in the first t bytes
FirstIncomplete(t, S) ==
    Fields(S)[CHOOSE k \in 1..8 :
                  Fields(S)[k].start <= t /\ t < Fields(S)[k].start + Fields(S)[k].width]

\* the result d of decoding t bytes fails with the error of the field f
FailsAtField(d, t, f) ==
    /\ ~d.panicked
    /\ d.err # Nil
    /\ Head(d.err.labels) = f.label
    /\ f.fixed => d.err = Wrap(f.label, ErrIO(IF t = f.start THEN "EOF"
                                              ELSE "unexpected EOF"))

\* a frame of ev was cut and then decoded
CutDecoded == cstep = "decoded" /\ Len(wire) < 34 + ev.Size

TruncationWithSeparator ==
    (CutDecoded /\ \E k \in 1..Len(ev.PayloadBytes) : ev.PayloadBytes[k] = separator)
        => FailsAtField(dec, Len(wire), FirstIncomplete(Len(wire), ev.Size))

\* the decode d of the byte string w went past the payload of Y bytes: the
\* Y bytes after the UUID are stored and the error, if any, is of a later field
PastPayload(d, w, Y) ==
    /\ ~d.panicked
    /\ d.e.PayloadBytes = SubSeq(w, 25, 24 + Y)
    /\ \/ d.err = Nil
       \/ Head(d.err.labels) \in {"reading protocol", "reading submitter",
                                  "reading checksum"}

\* the decode d of the byte string w, which holds X bytes after the UUID,
\* of a frame whose Size is Y
PayloadRead(d, w, X, Y) ==
    IF X = 0 THEN ~d.panicked /\ d.err = Wrap("reading payload", ErrIO("EOF"))
    ELSE IF X < Y THEN ~d.panicked /\ d.err = Wrap("reading payload", ErrShort(X, Y))
    ELSE PastPayload(d, w, Y)

\* ReadFrom was applied to a byte string that reaches the payload of a frame
\* with Size > 0
ReachedPayload == cstep = "decoded" /\ ev.Size > 0 /\ Len(wire) >= 24

\* C12: with Size = Y > 0 and X bytes left at the payload, ReadFrom fails
\* with "reading payload: EOF" when X = 0, with "reading payload: read X of
\* Y bytes" when 0 < X < Y, and otherwise stores exactly Y bytes in
\* PayloadBytes and goes on to the protocol field.
C12_PayloadRead ==
    ReachedPayload => PayloadRead(dec, wire, Len(wire) - 24, ev.Size)

\* the same for the frames whose payload holds a separator
PayloadReadWithSeparator ==
    (ReachedPayload /\ \E k \in 1..Len(ev.PayloadBytes) : ev.PayloadBytes[k] = separator)
        => PayloadRead(dec, wire, Len(wire) - 24, ev.Size)

\* ------------------------------------------------------------------------
\* Lexer driver: a payload string is lexed, and the tokens are parsed
\* (parsePayloadRaw: lex(string(e.PayloadBytes)), then the range loop)
\* ------------------------------------------------------------------------
\* the bytes of payload strings: "a", "b", ":", ",", and the two bytes of
\* "e" with an acute accent
Alphabet == {97, 98, 58, 44, 195, 169}

ShortStrings == UNION {[1..k -> Alphabet] : k \in 0..MaxInputLen}

\* keys and values: "", "a", "b", and "e" with an acute accent
Words == {<<>>, <<97>>, <<98>>, <<195, 169>>}

RECURSIVE PairLists(_)
\* the strings k1:v1,...,kN:vN of exactly N >= 1 pairs
PairLists(N) ==
    IF N = 1 THEN {k \o <<separator>> \o v : k \in Words, v \in Words}
    ELSE {q \o <<pairSeparator>> \o k \o <<separator>> \o v :
             q \in PairLists(N - 1), k \in Words, v \in Words}

\* the inputs of Test_lex and Test_parsePayload, byte by byte:
\* "username:alexander,password:Scribeapple"
TestPairs ==
    <<117, 115, 101, 114, 110, 97, 109, 101, 58, 97, 108, 101, 120, 97, 110,
      100, 101, 114, 44, 112, 97, 115, 115, 119, 111, 114, 100, 58, 83, 99,
      114, 105, 98, 101, 97, 112, 112, 108, 101>>

\* "email:liamwilson186@example.net"
TestEmail ==
    <<101, 109, 97, 105, 108, 58, 108, 105, 97, 109, 119, 105, 108, 115,
      111, 110, 49, 56, 54, 64, 101, 120, 97, 109, 112, 108, 101, 46, 110,
      101, 116>>

\* "user-agent:Mozilla/5.0 (Macintosh; ... (KHTML, like Gecko) ... Safari/602.2.14"
TestUserAgent ==
    <<117, 115, 101, 114, 45, 97, 103, 101, 110, 116, 58, 77, 111, 122, 105,
      108, 108, 97, 47, 53, 46, 48, 32, 40, 77, 97, 99, 105, 110, 116, 111,
      115, 104, 59, 32, 73, 110, 116, 101, 108, 32, 77, 97, 99, 32, 79, 83,
      32, 88, 32, 49, 48, 95, 49, 50, 95, 49, 41, 32, 65, 112, 112, 108,
      101, 87, 101, 98, 75, 105, 116, 47, 54, 48, 50, 46, 50, 46, 49, 52,
      32, 40, 75, 72, 84, 77, 76, 44, 32, 108, 105, 107, 101, 32, 71, 101,
      99, 107, 111, 41, 32, 86, 101, 114, 115, 105, 111, 110, 47, 49, 48,
      46, 48, 46, 49, 32, 83, 97, 102, 97, 114, 105, 47, 54, 48, 50, 46, 50,
      46, 49, 52>>

LexInputs ==
    ShortStrings \cup UNION {PairLists(N) : N \in 1..MaxPairs}
                 \cup {TestPairs, TestEmail, TestUserAgent}

LexInit ==
    /\ lexIn \in LexInputs
    /\ lexed = NewLexer(lexIn)
    /\ parsed = Parsed(NewLexer(<<>>))
    /\ lstep = "new"

\* lex(input) and the run of the lexer task to its end
Lex ==
    /\ lstep = "new"
    /\ lexed' = lex(lexIn)
    /\ lstep' = "lexed"
    /\ UNCHANGED <<lexIn, parsed, notLex>>

\* the range loop of parsePayloadRaw over the tokens
Parse ==
    /\ lstep = "lexed"
    /\ parsed' = Parsed(lexed)
    /\ lstep' = "parsed"
    /\ UNCHANGED <<lexIn, lexed, notLex>>

LexNext == Lex \/ Parse

InitLex == LexInit /\ PipeIdle /\ CodecIdle /\ TopIdle /\ ProtoIdle /\ UUIDIdle /\ FindIdle /\ GoIdle

SpecLex == InitLex /\ [][LexNext]_vars

\* ------------------------------------------------------------------------
\* Properties of the lexer and the parser
\* ------------------------------------------------------------------------
\* the positions (from 1) of the separators ":" and "," in the string s
SepPositions(s) == {p \in 1..Len(s) : s[p] \in {separator, pairSeparator}}

\* the j-th of them from the left
NthSep(s, j) ==
    CHOOSE p \in SepPositions(s) :
        Cardinality({q \in SepPositions(s) : q < p}) = j - 1

NumSeps(s) == Cardinality(SepPositions(s))

\* s is k1:v1,...,kN:vN with N >= 1 and no ":" or "," in a key or a value:
\* its separators are ":" and "," in turn, from ":" to ":"
WellFormed(s) ==
    /\ NumSeps(s) % 2 = 1
    /\ \A j \in 1..NumSeps(s) :
          s[NthSep(s, j)] = IF j % 2 = 1 THEN separator ELSE pairSeparator

\* the offset right after the j-th key or value of s
SpanEnd(s, j) == IF j > NumSeps(s) THEN Len(s) ELSE NthSep(s, j) - 1

\* the offset at which the j-th key or value of s starts
SpanStart(s, j) == IF j = 1 THEN 0 ELSE NthSep(s, j - 1)

ExpectedToken(s, j) ==
    [typ |-> IF j % 2 = 1 THEN tokenKey ELSE tokenValue,
     pos |-> SpanEnd(s, j),
     val |-> SubSeq(s, SpanStart(s, j) + 1, SpanEnd(s, j))]

ExpectedTokens(s) ==
    [j \in 1..(NumSeps(s) + 1) |-> ExpectedToken(s, j)]
        \o <<[typ |-> tokenEOF, pos |-> Len(s), val |-> <<>>]>>

HasLexed == lstep \in {"lexed", "parsed"}

\* C13: for an input k1:v1,...,kN:vN (N >= 1, no ":" or "," inside a key or
\* a value) the lexer does not panic and emits exactly key k1, value v1, ...,
\* key kN, value vN and the EOF token, in this order; the pos of each token
\* is the byte offset right after its span, and the EOF token has an empty
\* value and pos = len(input).
C13_TokenStream ==
    (HasLexed /\ WellFormed(lexIn)) =>
        /\ ~lexed.panicked
        /\ lexed.tokens = ExpectedTokens(lexIn)

\* two pairs were lexed, one of them with a key of two bytes for one rune
C13_Witness ==
    /\ lstep = "lexed"
    /\ WellFormed(lexIn)
    /\ Len(lexed.tokens) = 5
    /\ lexed.tokens[3].val = <<195, 169>>
    /\ lexed.tokens[3].pos > lexed.tokens[2].pos + 2

\* the lexer ended in range, having emitted the EOF token last
EndedWell(l) ==
    /\ ~l.panicked
    /\ 0 <= l.start /\ l.start <= l.pos /\ l.pos <= Len(l.input)
    /\ l.tokens # <<>>
    /\ l.tokens[Len(l.tokens)].typ = tokenEOF

\* C14: for every byte string, the empty one and those without ":"
\* included, the lexer run does not crash, keeps
\* 0 <= start <= pos <= len(input), emits the EOF token, and
\* parsePayloadRaw returns with Payload a map.
C14_ParsingCannotFail ==
    /\ HasLexed => EndedWell(lexed)
    /\ lstep = "parsed" => ~parsed.panicked

\* the same for the byte strings that hold a ":"
ParsingWithSeparator ==
    (HasLexed /\ \E p \in 1..Len(lexIn) : lexIn[p] = separator) =>
        /\ EndedWell(lexed)
        /\ lstep = "parsed" => ~parsed.panicked

\* a byte string without ":" ends the lexer run with a panic
PanicWithoutSeparator ==
    (HasLexed /\ \A p \in 1..Len(lexIn) : lexIn[p] # separator) =>
        lexed.panicked /\ lexed.pos = Len(lexIn) + 1

\* the key:value pairs among the tokens toks: pair j is token 2j-1 and 2j
NumPairs(toks) == (Len(toks) - 1) \div 2
KeyOf(toks, j) == toks[2 * j - 1].val
ValueOf(toks, j) == toks[2 * j].val

\* the last pair of toks that has the key kv
LastPair(toks, kv) ==
    CHOOSE j \in 1..NumPairs(toks) :
        /\ KeyOf(toks, j) = kv
        /\ \A q \in (j + 1)..NumPairs(toks) : KeyOf(toks, q) # kv

\* the map with the entries a |-> x and c |-> y
Map2(a, x, c, y) == [kv \in {a, c} |-> IF kv = a THEN x ELSE y]

\* C15: after parsePayloadRaw, Payload has exactly one entry per distinct
\* key of the token stream, and the entry of a key is the value of the last
\* pair with that key; one pair gives a map of one entry, and
\* "username:alexander,password:Scribeapple" gives
\* {username: alexander, password: Scribeapple}.
C15_LastValueWins ==
    (lstep = "parsed" /\ ~lexed.panicked) =>
        /\ DOMAIN parsed.Payload =
               {KeyOf(lexed.tokens, j) : j \in 1..NumPairs(lexed.tokens)}
        /\ \A kv \in DOMAIN parsed.Payload :
               parsed.Payload[kv] =
                   ValueOf(lexed.tokens, LastPair(lexed.tokens, kv))
        /\ NumPairs(lexed.tokens) = 1 => Cardinality(DOMAIN parsed.Payload) = 1
        /\ lexIn = TestPairs =>
               parsed.Payload = Map2(SubSeq(TestPairs, 1, 8), SubSeq(TestPairs, 10, 18),
                                     SubSeq(TestPairs, 20, 27), SubSeq(TestPairs, 29, 39))

\* a key was given twice with different values, and the map holds the second
C15_Witness ==
    /\ lstep = "parsed"
    /\ ~lexed.panicked
    /\ NumPairs(lexed.tokens) = 2
    /\ KeyOf(lexed.tokens, 1) = KeyOf(lexed.tokens, 2)
    /\ ValueOf(lexed.tokens, 1) # ValueOf(lexed.tokens, 2)
    /\ parsed.Payload[KeyOf(lexed.tokens, 1)] = ValueOf(lexed.tokens, 2)

\* ------------------------------------------------------------------------
\* Ranking driver: top(count) is called on an occurrence map as populate
\* builds it
\* ------------------------------------------------------------------------
\* the items counted: "", "A", "AB", "B", "C"
Items == {<<>>, <<65>>, <<65, 66>>, <<66>>, <<67>>}

\* how often an item was seen
Occurrences == {3, 5}

\* the maps populate builds: the entry under the key v has Item v and a
\* positive Occurrence
OccurrenceMaps ==
    UNION {[K -> Occurrences] : K \in {K \in SUBSET Items : Cardinality(K) <= MaxEntries}}

EntryOf(m, v) == [Item |-> v, Occurrence |-> m[v]]

\* the orders in which a range loop may visit the keys of m
VisitOrders(m) ==
    {o \in [1..Cardinality(DOMAIN m) -> DOMAIN m] :
        \A j, k \in DOMAIN o : j # k => o[j] # o[k]}

TopInit ==
    /\ occMap \in OccurrenceMaps
    /\ visitOrder \in VisitOrders(occMap)
    /\ topCount \in 0..MaxCount
    /\ topResult = <<>>
    /\ tstep = "new"

\* m.top(count)
Top ==
    /\ tstep = "new"
    /\ topResult' = top([v \in DOMAIN occMap |-> EntryOf(occMap, v)],
                        visitOrder, topCount)
    /\ tstep' = "done"
    /\ UNCHANGED <<occMap, visitOrder, topCount, notTop>>

TopNext == Top

InitTop == TopInit /\ PipeIdle /\ CodecIdle /\ LexIdle /\ ProtoIdle /\ UUIDIdle /\ FindIdle /\ GoIdle

SpecTop == InitTop /\ [][TopNext]_vars

\* ------------------------------------------------------------------------
\* Properties of the ranking
\* ------------------------------------------------------------------------
\* the entries of the map, and how many of them a result of topCount
\* elements has room for
RealEntries == {EntryOf(occMap, v) : v \in DOMAIN occMap}
NumReal == Min(Cardinality(DOMAIN occMap), topCount)

\* the entry e comes before the entry f: more occurrences, or as many and
\* an Item that is first in the lexicographic order
Before(e, f) ==
    \/ e.Occurrence > f.Occurrence
    \/ e.Occurrence = f.Occurrence /\ StringLess(e.Item, f.Item)

\* the map {A: 5, B: 5, C: 3}
ExampleMap == (<<65>> :> 5) @@ (<<66>> :> 5) @@ (<<67>> :> 3)

\* C16: the real entries in the result of top(n), n >= 0, are in
\* non-increasing order of Occurrence, entries with the same Occurrence in
\* ascending lexicographic order of Item, whatever order the map was visited
\* in; when the map has more than n entries the result is the first n
\* entries of that order: every entry left out comes after every entry in
\* the result; {A: 5, B: 5, C: 3} and n = 2 give [A, B].
C16_TopOrder ==
    tstep = "done" =>
        /\ Len(topResult) >= NumReal
        /\ \A j \in 1..NumReal : topResult[j] \in RealEntries
        /\ \A j, k \in 1..NumReal : j < k => Before(topResult[j], topResult[k])
        /\ \A e \in RealEntries :
              (\A j \in 1..NumReal : topResult[j] # e) =>
                  /\ Cardinality(DOMAIN occMap) > topCount
                  /\ \A j \in 1..NumReal : Before(topResult[j], e)
        /\ (occMap = ExampleMap /\ topCount = 2) =>
              topResult = <<[Item |-> <<65>>, Occurrence |-> 5],
                            [Item |-> <<66>>, Occurrence |-> 5]>>

\* top(2) was called on {A: 5, B: 5, C: 3}, visited in the order C, B, A
C16_Witness ==
    /\ tstep = "done"
    /\ occMap = ExampleMap
    /\ visitOrder = <<<<67>>, <<66>>, <<65>>>>
    /\ topCount = 2
    /\ Len(topResult) = 2

\* C17: top(n), n >= 0, on a map of m entries returns exactly n elements;
\* when m < n the first m are all the entries of the map and the other
\* n - m are placeholders with an empty Item and Occurrence 0; the entries
\* of the map are what they were.
C17_TopLength ==
    tstep = "done" =>
        /\ Len(topResult) = topCount
        /\ Cardinality(DOMAIN occMap) < topCount =>
              /\ {topResult[j] : j \in 1..Cardinality(DOMAIN occMap)} = RealEntries
              /\ \A j \in (Cardinality(DOMAIN occMap) + 1)..topCount :
                    topResult[j] = [Item |-> <<>>, Occurrence |-> 0]
        /\ \A j \in 1..NumReal : topResult[j].Occurrence = occMap[topResult[j].Item]

\* three entries and two placeholders: top(count) with two entries more
\* than the map has, one of the entries having the empty Item
C17_Witness ==
    /\ tstep = "done"
    /\ Cardinality(DOMAIN occMap) = topCount - 2
    /\ <<>> \in DOMAIN occMap
    /\ topResult[topCount] = NewItemOccurrence
    /\ topResult[topCount - 1] = NewItemOccurrence

\* ------------------------------------------------------------------------
\* Label driver: String is called on a Protocol value
\* ------------------------------------------------------------------------
\* Protocol is a uint16
Protocols == 0..65535

ProtoInit ==
    /\ protoArg \in Protocols
    /\ protoLabel = ""
    /\ protoStep = "new"

\* p.String()
CallString ==
    /\ protoStep = "new"
    /\ protoLabel' = String(protoArg)
    /\ protoStep' = "done"
    /\ UNCHANGED <<protoArg, notProto>>

ProtoNext == CallString

InitProto == ProtoInit /\ PipeIdle /\ CodecIdle /\ LexIdle /\ TopIdle /\ UUIDIdle /\ FindIdle /\ GoIdle

SpecProto == InitProto /\ [][ProtoNext]_vars

\* ------------------------------------------------------------------------
\* Properties of the protocol label
\* ------------------------------------------------------------------------
Known == {HTTP, SMTP, SSH, TELNET}

\* String gives a label for each of the 65536 values: the name of a known
\* constant, and "UNKNOWN" for every other value
LabelTotal ==
    protoStep = "done" =>
        /\ protoLabel # ""
        /\ protoArg = 10 => protoLabel = "HTTP"
        /\ protoArg = 17 => protoLabel = "SMTP"
        /\ protoArg = 49 => protoLabel = "SSH"
        /\ protoArg = 35 => protoLabel = "TELNET"
        /\ protoArg \notin {10, 17, 49, 35} => protoLabel = "UNKNOWN"

\* the frame of an Event with a protocol value that is not a known constant
\* (and with Size = len(PayloadBytes)) was decoded
UnknownDecoded ==
    /\ cstep = "decoded"
    /\ wire = MarshalBinary(ev)
    /\ ev.Size = Len(ev.PayloadBytes)
    /\ ev.Protocol \notin Known

\* C18: String maps 0x0A to "HTTP", 0x11 to "SMTP", 0x31 to "SSH", 0x23 to
\* "TELNET" and every other 16-bit value to "UNKNOWN"; decoding a frame
\* whose protocol value is not a known constant does not fail and keeps the
\* numeric value.
C18_UnknownProtocol ==
    /\ String(10) = "HTTP" /\ String(17) = "SMTP"
    /\ String(49) = "SSH" /\ String(35) = "TELNET"
    /\ UnknownDecoded =>
          /\ ~dec.panicked
          /\ dec.err = Nil
          /\ dec.e.Protocol = ev.Protocol
          /\ String(dec.e.Protocol) = "UNKNOWN"

\* the same for the frames whose payload holds a separator
UnknownProtocolWithSeparator ==
    (UnknownDecoded /\ \E p \in 1..Len(ev.PayloadBytes) : ev.PayloadBytes[p] = separator) =>
        /\ ~dec.panicked
        /\ dec.err = Nil
        /\ dec.e.Protocol = ev.Protocol
        /\ String(dec.e.Protocol) = "UNKNOWN"

\* ------------------------------------------------------------------------
\* Properties of the datagram size and of the queue
\* ------------------------------------------------------------------------
\* the sizes between the two bounds that a call may be made with
InRangeSizes ==
    {sz \in SizeArgs \cup {minDatagramBytes, maxDatagramBytes} :
        minDatagramBytes <= sz /\ sz <= maxDatagramBytes}

\* once the reader task exists, its buffer size is within the bounds, the
\* queue was sized with it, no datagram received is longer, and the call
\* was not rejected
SizeWithinBounds ==
    rpc # "none" =>
        /\ minDatagramBytes <= size /\ size <= maxDatagramBytes
        /\ chMade
        /\ \E cache \in CacheArgs : chCap = ToInt(ChanCap(cache, size).mag)
        /\ \A k \in 1..Len(received) : Len(received[k]) <= size
        /\ ret.err # ErrNoDatagrams

\* a step that enters collectEvents with datagrams >= 1 is a step of a
\* call with a size between the bounds
CallAsInRange ==
    (pc = "call" /\ pc' = "write") =>
        \E dg \in DatagramArgs, sz \in InRangeSizes, cache \in CacheArgs :
            Call(dg, sz, cache)

\* C19: collectEvents rejects no size: a size below 512 becomes 512 and one
\* above 65535 becomes 65535 before the queue is made and the reader task
\* is started, so that the reader's buffer size is always in 512..65535,
\* and every call is, step by step, a call with a size within the bounds.
C19_SizeClamped == []SizeWithinBounds /\ [][CallAsInRange]_vars

\* a call with a size above the upper bound (the only way to the size
\* 65535, as no SizeArgs is 65535) has collected an event
C19_Witness ==
    /\ pc = "done"
    /\ size = maxDatagramBytes
    /\ maxDatagramBytes \notin SizeArgs
    /\ ret.err = Nil
    /\ events # <<>>

\* ------------------------------------------------------------------------
\* readDatagrams on its own, as Test_readDatagrams runs it: the reader task
\* is started on a channel of a given capacity, a loop receives a number of
\* datagrams from the channel, and the deferred cancel() runs at the end
\* ------------------------------------------------------------------------
ReaderInit ==
    /\ pc = "drain"
    /\ datagrams \in 1..MaxDrain
    /\ size = minDatagramBytes
    /\ i = 1
    /\ events = <<>>
    /\ ret = NoRet
    /\ chMade = TRUE
    /\ chCap \in 0..MaxQueue
    /\ chDatagrams = <<>>
    /\ chClosed = FALSE
    /\ rpc = "read"
    /\ b = <<>>
    /\ ctxDone = FALSE
    /\ ctxAtCall = FALSE
    /\ connClosed = FALSE
    /\ writeErr = FALSE
    /\ nReads = 0
    /\ nWrites = 0
    /\ received = <<>>
    /\ dequeued = <<>>
    /\ readErrs = 0

\* r := <-chDatagrams takes the first datagram of the buffer
Drain ==
    /\ pc = "drain"
    /\ i <= datagrams
    /\ chDatagrams # <<>>
    /\ chDatagrams' = Tail(chDatagrams)
    /\ dequeued' = Append(dequeued, Head(chDatagrams))
    /\ i' = i + 1
    /\ UNCHANGED <<pc, datagrams, size, events, ret, chMade, chCap, chClosed,
                   rpc, b, ctxDone, connClosed, writeErr, nReads, nWrites,
                   received, readErrs, ctxAtCall, notPipe>>

\* a channel without buffer: the send of the reader and the receive of the
\* loop happen together
Handoff ==
    /\ pc = "drain"
    /\ i <= datagrams
    /\ rpc = "select"
    /\ chCap = 0
    /\ ~chClosed
    /\ dequeued' = Append(dequeued, b)
    /\ i' = i + 1
    /\ b' = <<>>
    /\ rpc' = "read"
    /\ UNCHANGED <<pc, datagrams, size, events, ret, chMade, chCap,
                   chDatagrams, chClosed, ctxDone, connClosed, writeErr,
                   nReads, nWrites, received, readErrs, ctxAtCall, notPipe>>

\* r := <-chDatagrams on the closed and empty channel gives a nil io.Reader,
\* and io.Copy from it panics
DrainNil ==
    /\ pc = "drain"
    /\ i <= datagrams
    /\ chClosed
    /\ chDatagrams = <<>>
    /\ pc' = "panic"
    /\ UNCHANGED <<datagrams, size, i, events, ret, chMade, chCap, chDatagrams,
                   chClosed, rpc, b, ctxDone, connClosed, writeErr, nReads,
                   nWrites, received, dequeued, readErrs, ctxAtCall, notPipe>>

\* the loop is over: the function returns and the deferred cancel() runs
Finish ==
    /\ pc = "drain"
    /\ i > datagrams
    /\ pc' = "done"
    /\ ctxDone' = TRUE
    /\ UNCHANGED <<datagrams, size, i, events, ret, chMade, chCap, chDatagrams,
                   chClosed, rpc, b, connClosed, writeErr, nReads, nWrites,
                   received, dequeued, readErrs, ctxAtCall, notPipe>>

ReaderNext ==
    \/ \E d \in Pool : ReadDatagram(d)
    \/ ReadClosed
    \/ ReadError
    \/ Send
    \/ ReaderDone
    \/ Drain
    \/ Handoff
    \/ DrainNil
    \/ Finish
    \/ Cancel
    \/ CloseConn

InitReader == ReaderInit /\ CodecIdle /\ LexIdle /\ TopIdle /\ ProtoIdle /\ UUIDIdle /\ FindIdle /\ GoIdle

SpecReader == InitReader /\ [][ReaderNext]_vars

\* a task that can run does run: the reader's send when the buffer has
\* room or the receiver waits, the loop's receive when a datagram is there,
\* and the return of the function when its loop is over
SpecReaderFair ==
    /\ SpecReader
    /\ WF_vars(Send)
    /\ WF_vars(Drain)
    /\ WF_vars(Handoff)
    /\ WF_vars(Finish)

\* the datagram the reader holds at its select, if any
Held == IF rpc = "select" THEN <<b>> ELSE <<>>

\* the queue is within its capacity and, without cancellation, the
\* datagrams received are those taken from the queue, those in it and the
\* one the reader holds, in this order
NoneDropped ==
    /\ Len(chDatagrams) <= chCap
    /\ ~ctxDone => dequeued \o chDatagrams \o Held = received

\* a step taken while the reader is at its select with the queue full
\* receives nothing and leaves the reader there, unless it is the return on
\* cancellation or the handoff to a waiting receiver
BlockedWhenFull ==
    (rpc = "select" /\ Len(chDatagrams) = chCap) =>
        /\ nReads' = nReads
        /\ received' = received
        /\ chDatagrams' = chDatagrams \/ chDatagrams' = Tail(chDatagrams)
        /\ \/ rpc' = "select" /\ b' = b
           \/ ctxDone /\ rpc' = "done"
           \/ chCap = 0 /\ rpc' = "read" /\ dequeued' = Append(dequeued, b)

\* the k-th datagram received is held by the reader
Holds(k) == rpc = "select" /\ Len(received) = k

\* the k-th datagram received was put into the queue or handed over
Enqueued(k) == Len(dequeued) + Len(chDatagrams) >= k

\* C20: the queue never holds more datagrams than its capacity; while the
\* queue is full the reader stays at its handoff and issues no receive; no
\* datagram received is dropped or overwritten, and every datagram the
\* reader holds is eventually enqueued unless cancellation is signalled.
C20_Backpressure ==
    /\ []NoneDropped
    /\ [][BlockedWhenFull]_vars
    /\ \A k \in 1..MaxRecv : Holds(k) ~> (Enqueued(k) \/ ctxDone)

\* the reader is at its handoff with a datagram while the queue of
\* capacity 1 is full and the receiver has taken nothing yet
C20_Witness ==
    /\ rpc = "select"
    /\ chCap = 1
    /\ Len(chDatagrams) = chCap
    /\ b # <<>>
    /\ ~ctxDone
    /\ pc = "drain"
    /\ dequeued = <<>>

\* ------------------------------------------------------------------------
\* Properties of the reader task
\* ------------------------------------------------------------------------
\* a step in which a receive fails with an error other than net.ErrClosed
\* puts nothing into the queue, does not close it, and leaves the reader at
\* its receive
FailedReceive ==
    readErrs' > readErrs =>
        /\ rpc = "read" /\ rpc' = "read"
        /\ chDatagrams' = chDatagrams
        /\ ~chClosed /\ ~chClosed'
        /\ received' = received
        /\ b' = b

\* C21: a receive that fails with an error other than "connection closed"
\* enqueues nothing, does not close the queue and does not end the reader,
\* which goes on to the next receive; the datagrams received, before and
\* after, reach the consumer in the order of their receipt.
C21_ReceiveErrorRetried ==
    /\ [][FailedReceive]_vars
    /\ [](IsPrefix(dequeued \o chDatagrams, received))

\* three receives, one of which failed, and both datagrams were collected
C21_Witness ==
    /\ readErrs = 1
    /\ nReads = 3
    /\ Len(dequeued) = 2
    /\ pc = "done"
    /\ Len(ret.events) = 2

\* the select of the reader chooses among its ready cases at random, so
\* that a case that is ready again and again is chosen in the end
SpecReaderCancel == SpecReader /\ SF_vars(ReaderDone)

\* the reader has returned and its deferred close(chDatagrams) has run
ReaderEnded == rpc = "done" /\ chClosed

\* a step of the reader from its select, taken after cancellation while
\* the queue is full and nobody receives, is its return
ReturnsWhenBlocked ==
    (rpc = "select" /\ ctxDone /\ Len(chDatagrams) = chCap
        /\ rpc' # rpc /\ dequeued' = dequeued)
        => rpc' = "done" /\ chClosed'

\* C22: once the context is cancelled the reader returns and closes the
\* queue, provided that no receive on the connection blocks for ever; a
\* reader that waits at its handoff with a datagram nobody takes can only
\* return.
C22_CancelEndsReader ==
    /\ ([]<>(rpc # "read")) => (ctxDone ~> ReaderEnded)
    /\ [][ReturnsWhenBlocked]_vars

\* the reader received two datagrams, put one into the queue of capacity 1,
\* nobody received, the context was cancelled before the loop was over, and
\* the reader has returned, giving up the datagram it held
C22_Witness ==
    /\ ReaderEnded
    /\ ctxDone
    /\ pc = "drain"
    /\ chCap = 1
    /\ Len(chDatagrams) = 1
    /\ Len(received) = 2
    /\ dequeued = <<>>
    /\ ~connClosed

\* collectEvents leaves its loop and returns, the context having been
\* cancelled before
ReturnsAfterCancel == ctxDone /\ pc = "loop" /\ pc' = "done"

\* C23: when the context is cancelled during collectEvents (datagrams >= 1,
\* the introduction written), collectEvents returns a nil error and the
\* events collected so far, whatever is in the queue or arrives later.
C23_CancelIsNotAnError ==
    [][ReturnsAfterCancel => (ret'.err = Nil /\ ret'.events = events')]_vars

\* the same for the returns through the ctx.Done case and the closed
\* channel, and for the last datagram asked for
CancelThroughDone ==
    [][(ReturnsAfterCancel /\ dequeued' = dequeued) =>
          (ret'.err = Nil /\ ret'.events = events)]_vars

\* ------------------------------------------------------------------------
\* UUID driver, as TestUUID_ReadFrom: a UUID is encoded into a buffer, the
\* buffer is cut or not, and a new UUID reads from it
\* ------------------------------------------------------------------------
\* the UUID of TestUUID_ReadFrom
TestUuid ==
    [TimeLow |-> <<13667, 12385>>, TimeMid |-> 26211, TimeHiAndVersion |-> 13872,
     ClockSeqHiAndRes |-> 45, ClockSeqLow |-> 52,
     Node |-> <<102, 53, 56, 45, 49, 49>>]

UUIDs ==
    [TimeLow : {<<0, 0>>, TestUuid.TimeLow, <<255, 65535>>},
     TimeMid : {255, TestUuid.TimeMid},
     TimeHiAndVersion : {0, TestUuid.TimeHiAndVersion},
     ClockSeqHiAndRes : {TestUuid.ClockSeqHiAndRes, 255},
     ClockSeqLow : {0, TestUuid.ClockSeqLow},
     Node : {TestUuid.Node, <<0, 0, 0, 0, 0, 255>>}]

\* the bytes that follow the UUID in the source
Trailers == {<<>>, <<255, 1>>}

\* the first three fields of a frame: NodeID 1, TimeStamp 2, Size 3
FrameHead == <<0, 1, 0, 0, 0, 2, 0, 3>>

UUIDInit ==
    /\ uid \in UUIDs
    /\ uwire = <<>>
    /\ udec = UUIDResult(ZeroUUID, <<>>, 0, Nil)
    /\ uframe = ReadResult(ZeroEvent, <<>>, 0, Nil)
    /\ ustep = "new"

\* bytes.NewBuffer(uuid.marshalBinary()), other bytes following or not
UUIDMarshal(trailer) ==
    /\ ustep = "new"
    /\ uwire' = UUIDmarshalBinary(uid) \o trailer
    /\ ustep' = "marshalled"
    /\ UNCHANGED <<uid, udec, uframe, notUUID>>

\* buf.Truncate(t)
UUIDTruncate(t) ==
    /\ ustep = "marshalled"
    /\ t < Len(uwire)
    /\ uwire' = SubSeq(uwire, 1, t)
    /\ ustep' = "cut"
    /\ UNCHANGED <<uid, udec, uframe, notUUID>>

\* new(UUID).ReadFrom(buf)
UUIDDecode ==
    /\ ustep \in {"marshalled", "cut"}
    /\ udec' = UUIDReadFrom(ZeroUUID, uwire)
    /\ ustep' = "decoded"
    /\ UNCHANGED <<uid, uwire, uframe, notUUID>>

\* new(Event).ReadFrom on the same bytes after the first three fields of a
\* frame
UUIDDecodeFrame ==
    /\ ustep = "decoded"
    /\ uframe' = ReadFrom(ZeroEvent, FrameHead \o uwire)
    /\ ustep' = "frame"
    /\ UNCHANGED <<uid, uwire, udec, notUUID>>

UUIDNext ==
    \/ \E trailer \in Trailers : UUIDMarshal(trailer)
    \/ \E t \in 0..(Len(uwire) - 1) : UUIDTruncate(t)
    \/ UUIDDecode
    \/ UUIDDecodeFrame

InitUUID ==
    UUIDInit /\ PipeIdle /\ CodecIdle /\ LexIdle /\ TopIdle /\ ProtoIdle /\ FindIdle /\ GoIdle

SpecUUID == InitUUID /\ [][UUIDNext]_vars

\* ------------------------------------------------------------------------
\* Properties of the UUID decoder
\* ------------------------------------------------------------------------
UUIDRead == ustep \in {"decoded", "frame"}

\* C24: ReadFrom on a source that holds at least 16 bytes consumes exactly
\* 16 of them and returns n = 16 and a nil error; on the bytes of
\* marshalBinary of a UUID it gives a UUID equal to it in all six fields.
C24_UUIDRoundTrip ==
    (UUIDRead /\ Len(uwire) >= 16) =>
        /\ udec.err = Nil
        /\ udec.n = 16
        /\ udec.rest = SubSeq(uwire, 17, Len(uwire))
        /\ SubSeq(uwire, 1, 16) = UUIDmarshalBinary(uid) => udec.u = uid

\* the UUID of the test was read from a source with bytes after it
C24_Witness ==
    /\ ustep = "decoded"
    /\ uid = TestUuid
    /\ Len(uwire) = 18
    /\ udec.u = TestUuid
    /\ udec.rest = <<255, 1>>

\* the layout of a UUID: label of the field's error, offset, width
UUIDFields ==
    << [label |-> "reading time low", start |-> 0, width |-> 4],
       [label |-> "reading time mid", start |-> 4, width |-> 2],
       [label |-> "reading time hi and version", start |-> 6, width |-> 2],
       [label |-> "reading clock seq hi and res", start |-> 8, width |-> 1],
       [label |-> "reading clock seq low", start |-> 9, width |-> 1],
       [label |-> "reading node", start |-> 10, width |-> 6] >>

\* the first field of a UUID that is not completely in its first t bytes
FirstIncompleteUUID(t) ==
    UUIDFields[CHOOSE k \in 1..6 :
                  UUIDFields[k].start <= t /\ t < UUIDFields[k].start + UUIDFields[k].width]

\* the error of a UUID cut to t bytes: for the node "EOF" or
\* "read X of 6 bytes", for the other fields "EOF" or "unexpected EOF"
CutError(t) ==
    Wrap(FirstIncompleteUUID(t).label,
         IF t = FirstIncompleteUUID(t).start THEN ErrIO("EOF")
         ELSE IF t > 10 THEN ErrShort(t - 10, 6)
         ELSE ErrIO("unexpected EOF"))

\* C25: ReadFrom on a source cut to t < 16 bytes fails with the error of
\* the first field that is not completely present; for the node this is
\* "reading node: read X of 6 bytes" when 0 < X < 6 bytes are left and
\* "reading node: EOF" when none is left; Event.ReadFrom returns the same
\* error with "reading UUID: " in front.
C25_UUIDTruncated ==
    /\ (UUIDRead /\ Len(uwire) < 16) => udec.err = CutError(Len(uwire))
    /\ (ustep = "frame" /\ Len(uwire) < 16) =>
          /\ ~uframe.panicked
          /\ uframe.err = Wrap("reading UUID", CutError(Len(uwire)))

\* the UUID of the test cut by two bytes: "reading UUID: reading node: read
\* 4 of 6 bytes"
C25_Witness ==
    /\ ustep = "frame"
    /\ uid = TestUuid
    /\ Len(uwire) = 14
    /\ uframe.err.labels = <<"reading UUID", "reading node">>
    /\ uframe.err.x = 4
    /\ uframe.err.y = 6

\* ------------------------------------------------------------------------
\* Report driver, as run: events are collected, then
\* (&findings{Events: events}).report(ipDetail)
\* ------------------------------------------------------------------------
MaxEvents == 4

\* "password:a", "username:a", "user-agent:a", "k:v", "k:v,password:a"
PasswordOnly == keyPassword \o <<58, 97>>
OtherAndPassword == <<107, 58, 118, 44>> \o keyPassword \o <<58, 97>>
UsernameOnly == keyUsername \o <<58, 97>>
UserAgentOnly == keyUserAgent \o <<58, 97>>
OtherKey == <<107, 58, 118>>

\* the event ReadFrom decodes from a frame with this protocol and payload
Found(proto, pb) ==
    Sealed(MakeEvent(1, <<0, 2>>, Len(pb), TestUUID, pb, proto, <<0, proto>>,
                     <<0, 0>>))

FoundEvents ==
    { Found(SSH, TestPairs), Found(SSH, PasswordOnly), Found(SSH, UsernameOnly),
      Found(TELNET, TestPairs), Found(TELNET, PasswordOnly),
      Found(TELNET, UsernameOnly),
      Found(HTTP, UserAgentOnly), Found(HTTP, OtherKey),
      Found(SMTP, TestEmail), Found(SMTP, OtherAndPassword) }

\* the -ip flag: none, the submitter of the SSH events
Addrs == {<<>>, AddrFrom4(<<0, SSH>>)}

FindInit ==
    /\ fEvents = <<>>
    /\ ipDetail = <<>>
    /\ reportRet = [s |-> <<>>, err |-> Nil]
    /\ fstep = "collect"
    /\ fMaps = populate(<<>>)

\* events = append(events, e)
AddEvent(e) ==
    /\ fstep = "collect"
    /\ Len(fEvents) < MaxEvents
    /\ fEvents' = Append(fEvents, e)
    /\ UNCHANGED <<ipDetail, reportRet, fstep, fMaps, notFind>>

\* report, err := (&findings{Events: events}).report(ipDetail)
Report(ip) ==
    /\ fstep = "collect"
    /\ ipDetail' = ip
    /\ fMaps' = populate(fEvents)
    /\ reportRet' = report(fEvents, ip)
    /\ fstep' = "done"
    /\ UNCHANGED <<fEvents, notFind>>

FindNext ==
    \/ \E e \in FoundEvents : AddEvent(e)
    \/ \E ip \in Addrs : Report(ip)

InitFind ==
    FindInit /\ PipeIdle /\ CodecIdle /\ LexIdle /\ TopIdle /\ ProtoIdle /\ UUIDIdle /\ GoIdle

SpecFind == InitFind /\ [][FindNext]_vars

\* ------------------------------------------------------------------------
\* Properties of the report
\* ------------------------------------------------------------------------
\* some event has the protocol
HasEvent(proto) == \E k \in 1..Len(fEvents) : fEvents[k].Protocol = proto

\* some event of the protocol has the payload key
HasKey(proto, key) ==
    \E k \in 1..Len(fEvents) :
        fEvents[k].Protocol = proto /\ key \in DOMAIN fEvents[k].Payload

\* what the report needs, in the order SSH, TELNET, HTTP, SMTP: the k-th
\* need is met
Met(k) ==
    CASE k = 1 -> HasEvent(SSH)
      [] k = 2 -> HasKey(SSH, keyPassword)
      [] k = 3 -> HasKey(SSH, keyUsername)
      [] k = 4 -> HasEvent(TELNET)
      [] k = 5 -> HasKey(TELNET, keyPassword)
      [] k = 6 -> HasKey(TELNET, keyUsername)
      [] k = 7 -> HasEvent(HTTP)
      [] k = 8 -> HasKey(HTTP, keyUserAgent)
      [] k = 9 -> HasEvent(SMTP)
      [] k = 10 -> HasKey(SMTP, keyEmail)

Unmet == {k \in 1..10 : ~Met(k)}

FirstUnmet == CHOOSE k \in Unmet : \A j \in Unmet : k <= j

\* the text of an error of report: format and argument put together
ErrorText(err) ==
    CASE err.cause = "no %s events" -> <<err.arg, "events">>
      [] err.cause = "no %s passwords" -> <<err.arg, "passwords">>
      [] err.cause = "no %s users" -> <<err.arg, "users">>
      [] err.cause = "no %s user-agents" -> <<err.arg, "user-agents">>
      [] err.cause = "no %s emails" -> <<err.arg, "emails">>
      [] OTHER -> <<>>

WhatText(k) ==
    CASE k \in {1, 4, 7, 9} -> "events"
      [] k \in {2, 5} -> "passwords"
      [] k \in {3, 6} -> "users"
      [] k = 8 -> "user-agents"
      [] k = 10 -> "emails"

WhatProto(k) ==
    IF k <= 3 THEN "SSH" ELSE IF k <= 6 THEN "TELNET"
    ELSE IF k <= 8 THEN "HTTP" ELSE "SMTP"

\* C26: report returns a non-nil error and the empty string when the
\* events have no SSH event, SSH password or SSH user name, no TELNET
\* event, password or user name, no HTTP event or user-agent, or no SMTP
\* event or email; the categories are tested in the order SSH, TELNET,
\* HTTP, SMTP and the first one missing gives the error; with none missing
\* the error is nil.
C26_ReportNeedsCategories ==
    fstep = "done" =>
        IF Unmet # {}
        THEN /\ reportRet.err # Nil
             /\ reportRet.s = <<>>
             /\ ErrorText(reportRet.err) = <<WhatProto(FirstUnmet), WhatText(FirstUnmet)>>
        ELSE /\ reportRet.err = Nil
             /\ Len(reportRet.s) = IF ipDetail = <<>> THEN 5 ELSE 6

\* SSH events with passwords and user names, no TELNET event, and an HTTP
\* event without user-agent: the error is the one of TELNET
C26_Witness ==
    /\ fstep = "done"
    /\ HasKey(SSH, keyPassword) /\ HasKey(SSH, keyUsername)
    /\ ~HasEvent(TELNET)
    /\ HasEvent(HTTP) /\ ~HasKey(HTTP, keyUserAgent)
    /\ reportRet.err = Errorf("no %s events", "TELNET")
    /\ reportRet.s = <<>>

\* four events that hold every category: a report of five tables
ReportRendered ==
    /\ fstep = "done"
    /\ Unmet = {}
    /\ ipDetail = <<>>
    /\ reportRet.err = Nil
    /\ Len(reportRet.s) = 5

\* ------------------------------------------------------------------------
\* Properties of the byte count and of the fields ReadFrom leaves alone
\* ------------------------------------------------------------------------
\* the number of bytes the decode took from the source
Consumed == Len(wire) - Len(dec.rest)

\* C27: ReadFrom returns the number of bytes it consumed from the source:
\* 34 + Size on success, and on failure the bytes consumed up to the point
\* of failure, the bytes of a partially read field, of decoded UUID
\* sub-fields and of a short payload read included.
C27_CountIsBytesConsumed ==
    (cstep = "decoded" /\ ~dec.panicked) =>
        /\ dec.n = Consumed
        /\ dec.err = Nil => dec.n = 34 + dec.e.Size

\* what the code returns: 34 + Size on success, and on failure the offset
\* of the top-level field whose read failed, the bytes consumed of that
\* field left out
CountOfWholeFields ==
    (cstep = "decoded" /\ ~dec.panicked) =>
        IF dec.err = Nil THEN dec.n = 34 + dec.e.Size /\ dec.n = Consumed
        ELSE /\ dec.n = FirstIncomplete(Len(wire), ev.Size).start
             /\ dec.n <= Consumed

\* a frame cut inside the UUID: 19 bytes consumed, 8 returned
CountLeavesOutUUID ==
    /\ cstep = "decoded"
    /\ Len(wire) = 19
    /\ dec.n = 8
    /\ Consumed = 19

\* the Event ReadFrom was called on
Prior == IF cstep = "redecoded" THEN UsedEvent ELSE ZeroEvent

\* the place in the order of the reads of the field whose error has the
\* label
FieldRank(label) ==
    CASE label = "reading node ID" -> 1
      [] label = "reading time stamp" -> 2
      [] label = "reading size" -> 3
      [] label = "reading UUID" -> 4
      [] label = "reading payload" -> 5
      [] label = "reading protocol" -> 6
      [] label = "reading submitter" -> 7
      [] label = "reading checksum" -> 8

\* ReadFrom returned the error of the k-th field or of a field before it
FailedUpTo(k) ==
    /\ cstep \in {"decoded", "redecoded"}
    /\ ~dec.panicked
    /\ dec.err # Nil
    /\ FieldRank(Head(dec.err.labels)) <= k

\* C28: when the read of a field fails, every field after it keeps the
\* value it had before the call: Payload is set only after the payload
\* bytes were read completely, IP only after Submitter was read, and
\* CheckSum only when all fields before it were decoded.
C28_LaterFieldsKept ==
    /\ FailedUpTo(1) => dec.e.TimeStamp = Prior.TimeStamp
    /\ FailedUpTo(2) => dec.e.Size = Prior.Size
    /\ FailedUpTo(3) => dec.e.EventUUID = Prior.EventUUID
    /\ FailedUpTo(4) => dec.e.PayloadBytes = Prior.PayloadBytes
    /\ FailedUpTo(5) => dec.e.Payload = Prior.Payload /\ dec.e.Protocol = Prior.Protocol
    /\ FailedUpTo(6) => dec.e.Submitter = Prior.Submitter
    /\ FailedUpTo(7) => dec.e.IP = Prior.IP
    /\ FailedUpTo(8) => dec.e.CheckSum = Prior.CheckSum

\* a frame cut inside its submitter and decoded into a used Event: the
\* fields up to Protocol are those of the frame, Submitter, IP and CheckSum
\* those the Event had
C28_Witness ==
    /\ cstep = "redecoded"
    /\ FailedUpTo(7) /\ ~FailedUpTo(6)
    /\ dec.e.NodeID = ev.NodeID
    /\ dec.e.PayloadBytes = ev.PayloadBytes
    /\ dec.e.Protocol = ev.Protocol
    /\ dec.e.Submitter = UsedEvent.Submitter
    /\ dec.e.IP = UsedEvent.IP
    /\ dec.e.CheckSum = UsedEvent.CheckSum

\* ------------------------------------------------------------------------
\* Properties of the scan of a value
\* ------------------------------------------------------------------------
\* the place of the first byte c of s after the offset st, counted from 1;
\* 0 when there is none
FirstAfter(s, c, st) ==
    IF \E k \in (st + 1)..Len(s) : s[k] = c
    THEN CHOOSE k \in (st + 1)..Len(s) :
            s[k] = c /\ \A j \in (st + 1)..(k - 1) : s[j] # c
    ELSE 0

\* the value that starts at the offset st is split: a ":" remains and the
\* first "," comes before the first ":"
SplitAtComma(s, st) ==
    /\ FirstAfter(s, separator, st) > 0
    /\ FirstAfter(s, pairSeparator, st) > 0
    /\ FirstAfter(s, pairSeparator, st) < FirstAfter(s, separator, st)

\* the offset at which the value token tk of the input s has to end
ValueEnd(s, tk) ==
    IF SplitAtComma(s, tk.pos - Len(tk.val))
    THEN FirstAfter(s, pairSeparator, tk.pos - Len(tk.val)) - 1
    ELSE Len(s)

\* C29: a value token ends at the first "," of the input that remains at
\* its start exactly when that input holds a ":" and its first "," comes
\* before its first ":"; in every other case the value token runs to the
\* end of the input.
C29_ValueEnd ==
    HasLexed =>
        \A j \in 1..Len(lexed.tokens) :
            lexed.tokens[j].typ = tokenValue =>
                lexed.tokens[j].pos = ValueEnd(lexIn, lexed.tokens[j])

\* the user-agent of Test_lex: its value holds a "," and runs to the end
C29_Witness ==
    /\ lstep = "lexed"
    /\ lexIn = TestUserAgent
    /\ Len(lexed.tokens) = 3
    /\ lexed.tokens[2].typ = tokenValue
    /\ lexed.tokens[2].pos = Len(lexIn)
    /\ \E k \in 1..Len(lexed.tokens[2].val) : lexed.tokens[2].val[k] = pairSeparator

\* a value cut at its "," because a ":" follows
ValueSplit ==
    /\ lstep = "lexed"
    /\ lexIn = TestPairs
    /\ lexed.tokens[2].typ = tokenValue
    /\ lexed.tokens[2].pos < Len(lexIn)
    /\ lexIn[lexed.tokens[2].pos + 1] = pairSeparator

\* ------------------------------------------------------------------------
\* Properties of the capacity of the queue
\* ------------------------------------------------------------------------
\* C30: for every cache budget and datagram size the queue is made with
\* max(1, budget / size) slots, the budget being max(cache, 1) MiB and the
\* size the clamped one: the capacity is at least 1, and cache << 20 does
\* not overflow into a zero or negative capacity.
C30_CapacityAtLeastOne ==
    /\ pc = "panic" => chMade
    /\ chMade => chCap >= 1 /\ chCap = 1048576 \div size

\* with a budget of 2^43 MiB cache << 20 is the least int, the capacity is
\* negative and make panics before the reader task is started
QueueNotMade == pc = "panic" /\ ~chMade /\ rpc = "none" /\ nWrites = 0

\* with a budget of 2^44 MiB cache << 20 is 0 and so is the capacity
ShiftToZero ==
    /\ ChanCap(<<0, 0, 16, 0, 0, 0, 0, 0>>, minDatagramBytes).mag = Int64(0)
    /\ ~makechanPanics(ChanCap(<<0, 0, 16, 0, 0, 0, 0, 0>>, minDatagramBytes))

\* the budgets 0 and 1 and a budget of 2^43 MiB give 2048 slots of 512
\* bytes and a negative number of slots
CapacityOfBudgets ==
    /\ ToInt(ChanCap(Int64(0), minDatagramBytes).mag) = 2048
    /\ ToInt(ChanCap(Int64(1), minDatagramBytes).mag) = 2048
    /\ ChanCap(<<0, 0, 8, 0, 0, 0, 0, 0>>, maxDatagramBytes).neg
    /\ ChanCap(<<0, 0, 8, 0, 0, 0, 0, 0>>, minDatagramBytes).mag
           = <<0, 64, 0, 0, 0, 0, 0, 0>>

\* whenever the queue is made it has the slots of a budget of 1 MiB
CapacityOfOneMiB == chMade => chCap = 1048576 \div size /\ chCap >= 16

\* ------------------------------------------------------------------------
\* Properties of the count of the consumer loop
\* ------------------------------------------------------------------------
RECURSIVE NumInvalid(_)
\* how many of the datagrams decode to an Event that is not Valid()
NumInvalid(ds) ==
    IF ds = <<>> THEN 0
    ELSE (IF Decodes(Head(ds)) /\ ~IsValid(DecodeOf(Head(ds)).e) THEN 1 ELSE 0)
             + NumInvalid(Tail(ds))

\* collectEvents returned its events with a nil error
ReturnedEvents == pc = "done" /\ ret.err = Nil /\ datagrams >= 1

\* C31: the consumer loop dequeues at most `datagrams` datagrams; a
\* datagram that decodes to an invalid Event uses up an iteration, so the
\* events collected are as many as the datagrams dequeued less the invalid
\* ones, never more than `datagrams`, and no datagram is dequeued in the
\* place of a discarded one.
C31_DequeueBound ==
    /\ dequeued # <<>> => Len(dequeued) <= datagrams
    /\ pc = "loop" =>
          /\ Len(dequeued) = i - 1
          /\ Len(events) = Len(dequeued) - NumInvalid(dequeued)
    /\ ReturnedEvents =>
          /\ Len(ret.events) = Len(dequeued) - NumInvalid(dequeued)
          /\ Len(ret.events) <= datagrams

\* one datagram was asked for, two were received, the one dequeued was
\* invalid: no event is returned and the second datagram stays in the queue
C31_Witness ==
    /\ ReturnedEvents
    /\ datagrams = 1
    /\ dequeued = <<FrameBadSum>>
    /\ chDatagrams = <<FrameA>>
    /\ ret.events = <<>>

\* ------------------------------------------------------------------------
\* Properties of populate
\* ------------------------------------------------------------------------
\* the places in Events of the events of the protocol, of the submitter, and
\* of the events of the protocol whose payload has the value under the key
OfProtocol(proto) == {k \in 1..Len(fEvents) : fEvents[k].Protocol = proto}

OfSubmitter(ip) == {k \in 1..Len(fEvents) : fEvents[k].IP = ip}

WithValue(proto, key, val) ==
    {k \in 1..Len(fEvents) :
        /\ fEvents[k].Protocol = proto
        /\ key \in DOMAIN fEvents[k].Payload
        /\ fEvents[k].Payload[key] = val}

RECURSIVE EventsFrom(_, _)
\* the events of the submitter from the place k on, in the order of Events
EventsFrom(ip, k) ==
    IF k > Len(fEvents) THEN <<>>
    ELSE (IF fEvents[k].IP = ip THEN <<fEvents[k]>> ELSE <<>>) \o EventsFrom(ip, k + 1)

RECURSIVE SumOfCounts(_, _)
SumOfCounts(m, keys) ==
    IF keys = {} THEN 0
    ELSE SumOfCounts(m, keys \ {CHOOSE k \in keys : TRUE})
             + m[CHOOSE k \in keys : TRUE].Occurrence

\* the table of a tracked key counts, for each protocol and value, the
\* events of the protocol with that value under the key, and nothing else
Tallied(table, key) ==
    /\ \A proto \in DOMAIN table : \A val \in DOMAIN table[proto] :
          /\ table[proto][val].Occurrence = Cardinality(WithValue(proto, key, val))
          /\ table[proto][val].Occurrence > 0
    /\ \A k \in 1..Len(fEvents) :
          key \in DOMAIN fEvents[k].Payload =>
              /\ fEvents[k].Protocol \in DOMAIN table
              /\ fEvents[k].Payload[key] \in DOMAIN table[fEvents[k].Protocol]

\* C32: after populate, ByProtocol[P].Occurrence is the number of events
\* of the protocol P; Submitters[A].Occurrence is the number of events with
\* the IP A and Submitters[A].Events holds these events in the order they
\* were collected; for each of the keys email, password, username and
\* user-agent the count of a value v under a protocol P is the number of
\* events of P whose payload has v under the key; the counts of ByProtocol
\* and those of Submitters both add up to len(Events).
C32_PopulateCounts ==
    fstep = "done" =>
        /\ DOMAIN fMaps.ByProtocol = {fEvents[k].Protocol : k \in 1..Len(fEvents)}
        /\ \A proto \in DOMAIN fMaps.ByProtocol :
              fMaps.ByProtocol[proto].Occurrence = Cardinality(OfProtocol(proto))
        /\ DOMAIN fMaps.Submitters = {fEvents[k].IP : k \in 1..Len(fEvents)}
        /\ \A ip \in DOMAIN fMaps.Submitters :
              /\ fMaps.Submitters[ip].Occurrence = Cardinality(OfSubmitter(ip))
              /\ fMaps.Submitters[ip].Events = EventsFrom(ip, 1)
        /\ Tallied(fMaps.Emails, keyEmail)
        /\ Tallied(fMaps.Passwords, keyPassword)
        /\ Tallied(fMaps.Usernames, keyUsername)
        /\ Tallied(fMaps.UserAgents, keyUserAgent)
        /\ SumOfCounts(fMaps.ByProtocol, DOMAIN fMaps.ByProtocol) = Len(fEvents)
        /\ SumOfCounts(fMaps.Submitters, DOMAIN fMaps.Submitters) = Len(fEvents)

\* four events, two of them SSH events of one submitter with the same
\* password: the count of the password, of SSH and of the submitter is 2
C32_Witness ==
    /\ fstep = "done"
    /\ Len(fEvents) = 4
    /\ fEvents[1] = Found(SSH, PasswordOnly) /\ fEvents[2].Protocol = TELNET
    /\ fEvents[3] = Found(SSH, PasswordOnly) /\ fEvents[4].Protocol = SMTP
    /\ fMaps.ByProtocol[SSH].Occurrence = 2
    /\ fMaps.Passwords[SSH][<<97>>].Occurrence = 2
    /\ fMaps.Submitters[fEvents[1].IP].Events = <<fEvents[1], fEvents[3]>>

\* the keys populate tallies
TrackedKeys == {keyEmail, keyPassword, keyUsername, keyUserAgent}

\* the table of a tracked key
TableOf(key) ==
    CASE key = keyEmail -> fMaps.Emails
      [] key = keyPassword -> fMaps.Passwords
      [] key = keyUsername -> fMaps.Usernames
      [] key = keyUserAgent -> fMaps.UserAgents

\* the payload of the event has a key that is not tracked
HasUnknownKey(e) == DOMAIN e.Payload \ TrackedKeys # {}

\* every entry of every table comes from an event with the value under the
\* key of the table
NoStrayEntry ==
    \A key \in TrackedKeys : \A proto \in DOMAIN TableOf(key) :
        \A val \in DOMAIN TableOf(key)[proto] : WithValue(proto, key, val) # {}

\* the event at the place k is counted under its protocol and its
\* submitter, and each tracked key of its payload is tallied
CountedInFull(k) ==
    /\ fEvents[k].Protocol \in DOMAIN fMaps.ByProtocol
    /\ fMaps.ByProtocol[fEvents[k].Protocol].Occurrence
          = Cardinality(OfProtocol(fEvents[k].Protocol))
    /\ fEvents[k].IP \in DOMAIN fMaps.Submitters
    /\ fMaps.Submitters[fEvents[k].IP].Occurrence
          = Cardinality(OfSubmitter(fEvents[k].IP))
    /\ \A key \in TrackedKeys \cap DOMAIN fEvents[k].Payload :
          /\ fEvents[k].Protocol \in DOMAIN TableOf(key)
          /\ fEvents[k].Payload[key] \in DOMAIN TableOf(key)[fEvents[k].Protocol]
          /\ TableOf(key)[fEvents[k].Protocol][fEvents[k].Payload[key]].Occurrence
                = Cardinality(WithValue(fEvents[k].Protocol, key, fEvents[k].Payload[key]))

\* C33: a payload key other than email, password, username and user-agent
\* changes none of the four tables and does not end populate; the event
\* that carries it is counted in ByProtocol and Submitters, and its tracked
\* keys are tallied.
C33_UnknownKeysIgnored ==
    (fstep = "done" /\ \E k \in 1..Len(fEvents) : HasUnknownKey(fEvents[k])) =>
        /\ NoStrayEntry
        /\ \A k \in 1..Len(fEvents) : HasUnknownKey(fEvents[k]) => CountedInFull(k)

\* an SMTP event with the payload k:v,password:a and an HTTP event with
\* the payload k:v: the only entry of the tables is the password a of SMTP
C33_Witness ==
    /\ fstep = "done"
    /\ fEvents = <<Found(SMTP, OtherAndPassword), Found(HTTP, OtherKey)>>
    /\ fMaps.Passwords[SMTP][<<97>>].Occurrence = 1
    /\ DOMAIN fMaps.Passwords = {SMTP}
    /\ fMaps.Emails = <<>> /\ fMaps.Usernames = <<>> /\ fMaps.UserAgents = <<>>
    /\ fMaps.ByProtocol[HTTP].Occurrence = 1

\* ------------------------------------------------------------------------
\* The lexer goroutine and parsePayloadRaw, step by step: lex starts the
\* goroutine on an unbuffered channel, run sends each token it emits, the
\* range loop of parsePayloadRaw receives them
\* ------------------------------------------------------------------------
\* parsePayloadRaw has called lex and is at its range loop
GoInit ==
    /\ \E input \in LexInputs : golex = [l |-> NewLexer(input), state |-> "lexKey"]
    /\ gsent = 0
    /\ gpc = "run"
    /\ gcloses = 0
    /\ ppc = "range"
    /\ pkey = <<>>
    /\ ppayload = <<>>
    /\ plast = 0

\* the tokens emitted so far were all received
AllSent == gsent = Len(golex.l.tokens)

\* l.state = l.state(l) up to the first send: the tokens the state function
\* emits are in l.tokens and are sent one by one
LexStep ==
    /\ gpc = "run"
    /\ AllSent
    /\ ~golex.l.panicked
    /\ golex.state # "nil"
    /\ golex' = runState(golex)
    /\ UNCHANGED <<gsent, gpc, gcloses, ppc, pkey, ppayload, plast, notGo>>

\* l.tokens <- token and for t := range l.tokens meet: the body of the loop
\* of parsePayloadRaw runs on the token
LexSend ==
    /\ gpc = "run"
    /\ ~AllSent
    /\ ppc = "range"
    /\ gsent' = gsent + 1
    /\ plast' = golex.l.tokens[gsent + 1].typ
    /\ ppc' = IF golex.l.tokens[gsent + 1].typ = tokenEOF THEN "returned" ELSE "range"
    /\ pkey' = IF golex.l.tokens[gsent + 1].typ = tokenKey
               THEN golex.l.tokens[gsent + 1].val ELSE pkey
    /\ ppayload' = IF golex.l.tokens[gsent + 1].typ = tokenValue
                   THEN MapPut(ppayload, pkey, golex.l.tokens[gsent + 1].val)
                   ELSE ppayload
    /\ UNCHANGED <<golex, gpc, gcloses, notGo>>

\* the slice expression of lexValue panics: the process ends
LexPanic ==
    /\ gpc = "run"
    /\ AllSent
    /\ golex.l.panicked
    /\ gpc' = "panic"
    /\ UNCHANGED <<golex, gsent, gcloses, ppc, pkey, ppayload, plast, notGo>>

\* the loop of run ends: close(l.tokens), and the goroutine returns
LexClose ==
    /\ gpc = "run"
    /\ AllSent
    /\ ~golex.l.panicked
    /\ golex.state = "nil"
    /\ gcloses' = gcloses + 1
    /\ gpc' = "done"
    /\ UNCHANGED <<golex, gsent, ppc, pkey, ppayload, plast, notGo>>

\* the range loop of parsePayloadRaw would also end at a closed channel, but
\* lexValue returns nil only after it emitted the end-of-input token, at
\* which the loop has returned: the close is never received
GoNext == LexStep \/ LexSend \/ LexPanic \/ LexClose

InitGo ==
    GoInit /\ PipeIdle /\ CodecIdle /\ LexIdle /\ TopIdle /\ ProtoIdle /\ UUIDIdle /\ FindIdle

SpecGo == InitGo /\ [][GoNext]_vars

\* LexStep can be taken: every step of a state function changes golex
StepEnabled == gpc = "run" /\ AllSent /\ ~golex.l.panicked /\ golex.state # "nil"

\* weak fairness of LexStep, with its enabling condition written out
FairLexStep == []<>(~StepEnabled) \/ []<><<LexStep>>_vars

\* the Go scheduler runs a goroutine that can run
SpecGoFair ==
    SpecGo /\ FairLexStep /\ WF_vars(LexSend) /\ WF_vars(LexClose)
           /\ WF_vars(LexPanic)

\* ------------------------------------------------------------------------
\* Properties of the lexer goroutine
\* ------------------------------------------------------------------------
\* parsePayloadRaw returned on the end-of-input token
GotEOF == ppc = "returned" /\ plast = tokenEOF

\* the goroutine has nothing to send and no state function to run
NothingLeft == AllSent /\ golex.state = "nil" /\ ~golex.l.panicked

\* the goroutine returned after it closed the channel once
GoroutineEnded == gpc = "done" /\ gcloses = 1

\* C34: for every input, once parsePayloadRaw has received the
\* end-of-input token the lexer goroutine sends no further token, is not
\* left blocked at a send on the token channel, closes the channel exactly
\* once and terminates.
C34_GoroutineEnds ==
    /\ [](GotEOF => NothingLeft)
    /\ [](gcloses <= 1)
    /\ [][GotEOF => gsent' = gsent /\ golex' = golex]_vars
    /\ (GotEOF ~> GoroutineEnded)

\* the pair input of Test_lex: five tokens were received, the goroutine
\* closed the channel and returned
C34_Witness ==
    /\ GotEOF
    /\ GoroutineEnded
    /\ golex.l.input = TestPairs
    /\ gsent = 5
    /\ DOMAIN ppayload = {keyUsername, keyPassword}

\* what parsePayloadRaw has when it returns is what the range loop over
\* all tokens of the lexer gives
SameAsParsed == GotEOF => ppayload = Parsed(golex.l).Payload

\* an input without ":": the goroutine panics after the key was received
GoroutinePanics == gpc = "panic" /\ ppc = "range" /\ gsent = 1 /\ gcloses = 0

\* ------------------------------------------------------------------------
\* collectEvents with every capacity of the queue: the budgets of CacheArgs
\* and a budget of 2^44 MiB, with which cache << 20 is 0 and the channel has
\* no buffer
\* ------------------------------------------------------------------------
CacheZeroShift == <<0, 0, 16, 0, 0, 0, 0, 0>>

\* a channel without buffer: chDatagrams <- bytes.NewBuffer(b[:n]) in the
\* reader and r, ok = <-chDatagrams in the loop happen together, and the
\* rest of the iteration follows
HandoffLoop ==
    /\ Running
    /\ pc = "loop"
    /\ i <= datagrams
    /\ rpc = "select"
    /\ chCap = 0
    /\ ~chClosed
    /\ dequeued' = Append(dequeued, b)
    /\ Collect(ReadFrom(ZeroEvent, b))
    /\ b' = <<>>
    /\ rpc' = "read"
    /\ UNCHANGED <<datagrams, size, chMade, chCap, chDatagrams, chClosed,
                   ctxDone, connClosed, writeErr, nReads, nWrites, received,
                   readErrs, ctxAtCall, notPipe>>

NextQueue ==
    \/ \E dg \in DatagramArgs, sz \in SizeArgs : Call(dg, sz, CacheZeroShift)
    \/ HandoffLoop
    \/ Next

SpecQueue == Init /\ [][NextQueue]_vars

\* the loop can receive from the buffer of the queue
RecvEnabled == Running /\ pc = "loop" /\ i <= datagrams /\ chDatagrams # <<>>

\* the loop can receive from the reader waiting at its send
HandoffEnabled ==
    /\ Running /\ pc = "loop" /\ i <= datagrams
    /\ rpc = "select" /\ chCap = 0 /\ ~chClosed

\* weak fairness of the two receives, their enabling conditions written out
FairRecv == []<>(~RecvEnabled) \/ []<><<SelectRecv>>_vars
FairHandoff == []<>(~HandoffEnabled) \/ []<><<HandoffLoop>>_vars

\* a task that can run does run: conn.Write returns, a select with a ready
\* case takes one, a send into a buffer with room is done, and conn.Read on
\* a closed connection returns
SpecQueueFair ==
    /\ SpecQueue
    /\ WF_vars(\E failed \in BOOLEAN : Write(failed))
    /\ WF_vars(SelectDone)
    /\ WF_vars(SelectClosed)
    /\ FairRecv
    /\ FairHandoff
    /\ WF_vars(Send)
    /\ WF_vars(ReadClosed)

\* ------------------------------------------------------------------------
\* Properties of the termination of collectEvents
\* ------------------------------------------------------------------------
\* collectEvents was called and has passed its argument checks
Called == pc # "call" /\ datagrams >= 1

\* datagrams datagrams were dequeued, the connection is closed or the
\* context is cancelled
MustEnd == Len(dequeued) >= datagrams \/ connClosed \/ ctxDone

\* C35: collectEvents always returns: under fair scheduling, once datagrams
\* datagrams were dequeued, the connection is closed, a decode failed or the
\* context is cancelled, the call returns; the reader and the loop do not
\* block each other at the queue for ever.
C35_AlwaysReturns ==
    /\ (Called /\ MustEnd) ~> (pc = "done")
    /\ (pc = "loop" /\ rpc = "select") ~> (pc = "done" \/ rpc # "select")

\* what holds instead: the call returns or the process panics
ReturnsOrPanics ==
    /\ (Called /\ MustEnd) ~> (pc \in {"done", "panic"})
    /\ (pc = "loop" /\ rpc = "select")
           ~> (pc \in {"done", "panic"} \/ rpc # "select")

\* the datagram with the payload "a" was handed over on the channel without
\* buffer, the count was filled by it, and the process panicked in the lexer
PanicsAtHandoff ==
    /\ pc = "panic"
    /\ chCap = 0
    /\ dequeued = <<FrameNoSep>>
    /\ datagrams = 1

\* the reader and the loop met twice at the channel without buffer and the
\* call has returned both events
ReturnsAfterHandoffs ==
    /\ pc = "done"
    /\ chCap = 0
    /\ Len(dequeued) = 2
    /\ Len(ret.events) = 2
    /\ ret.err = Nil

\* ------------------------------------------------------------------------
\* Properties of the closing of the queue
\* ------------------------------------------------------------------------
\* a step that closes the queue is the return of the reader, from conn.Read
\* on the closed connection or from its select after cancellation, and no
\* step of collectEvents
ClosedByReader ==
    chClosed' # chClosed =>
        /\ ~chClosed
        /\ rpc' = "done"
        /\ \/ rpc = "read" /\ connClosed
           \/ rpc = "select" /\ ctxDone
        /\ pc' = pc /\ i' = i /\ events' = events /\ ret' = ret

\* on the closed queue nothing is sent and the reader takes no step: the
\* queue only loses what the loop receives
NoSendAfterClose ==
    chClosed =>
        /\ chClosed'
        /\ rpc' = rpc /\ nReads' = nReads /\ received' = received
        /\ \/ chDatagrams' = chDatagrams /\ dequeued' = dequeued
           \/ /\ chDatagrams # <<>>
              /\ chDatagrams' = Tail(chDatagrams)
              /\ dequeued' = Append(dequeued, Head(chDatagrams))

\* a step of collectEvents that is no handoff neither closes the queue nor
\* puts anything into it
LoopOnlyReceives ==
    ((pc' # pc \/ i' # i \/ events' # events) /\ rpc' = rpc) =>
        /\ chClosed' = chClosed
        /\ Len(chDatagrams') <= Len(chDatagrams)

\* C36: the queue is closed only by the reader task and exactly once, when
\* the reader exits; nothing is sent on the closed queue, and the loop of
\* collectEvents never closes the queue or sends on it, also when
\* collectEvents has returned while the reader is still running.
C36_ClosedOnceByReader ==
    /\ [](chClosed <=> rpc = "done")
    /\ [][ClosedByReader]_vars
    /\ [][NoSendAfterClose]_vars
    /\ [][LoopOnlyReceives]_vars

\* collectEvents returned the decode error of the first datagram, the
\* reader had received a second one, and has returned from its select on
\* cancellation and closed the queue
C36_Witness ==
    /\ pc = "done"
    /\ ret.err # Nil
    /\ dequeued = <<FrameCut>>
    /\ Len(received) = 2
    /\ ctxDone
    /\ ~connClosed
    /\ rpc = "done"
    /\ chClosed

\* the reader is still at work after collectEvents returned: a step of the
\* reader is taken in a state where the call is over
ReaderOutlivesCall == pc = "done" /\ rpc = "select" /\ ~chClosed /\ Len(chDatagrams) = 1

\* ------------------------------------------------------------------------
\* Properties of the token stream
\* ------------------------------------------------------------------------
\* the input holds a ":"
HasSeparator(input) == \E p \in 1..Len(input) : input[p] = separator

\* key, value, key, value, ... and one end-of-input token at the end
Alternates(tokens) ==
    /\ Len(tokens) >= 3
    /\ Len(tokens) % 2 = 1
    /\ tokens[Len(tokens)].typ = tokenEOF
    /\ \A k \in 1..(Len(tokens) - 1) :
           tokens[k].typ = IF k % 2 = 1 THEN tokenKey ELSE tokenValue

RECURSIVE JoinPairs(_, _)
\* the pairs from the k-th token on, each written key ":" value, joined
\* with ","
JoinPairs(tokens, k) ==
    IF k + 1 >= Len(tokens) THEN <<>>
    ELSE tokens[k].val \o <<separator>> \o tokens[k + 1].val
         \o (IF k + 3 >= Len(tokens) THEN <<>>
             ELSE <<pairSeparator>> \o JoinPairs(tokens, k + 2))

\* the key tokens that come after a pair separator
LaterKeys(tokens) == {k \in 3..Len(tokens) : tokens[k].typ = tokenKey}

\* C37: for every input that holds a ":" the tokens lose no byte: they are
\* key, value, key, value, ... and one end-of-input token, every key after
\* a "," is followed in the input by ":", and the pairs written key ":"
\* value and joined with "," are the input.
C37_TokensKeepInput ==
    (lstep # "new" /\ HasSeparator(lexIn)) =>
        /\ ~lexed.panicked
        /\ Alternates(lexed.tokens)
        /\ \A k \in LaterKeys(lexed.tokens) :
               /\ lexed.tokens[k].pos < Len(lexIn)
               /\ lexIn[lexed.tokens[k].pos + 1] = separator
               /\ lexIn[lexed.tokens[k].pos - Len(lexed.tokens[k].val)] = pairSeparator
        /\ JoinPairs(lexed.tokens, 1) = lexIn

\* "a:b,:a": two pairs, the second with the empty key, and five tokens
C37_Witness ==
    /\ lstep = "lexed"
    /\ lexIn = <<97, 58, 98, 44, 58, 97>>
    /\ Len(lexed.tokens) = 5
    /\ lexed.tokens[3] = [typ |-> tokenKey, pos |-> 4, val |-> <<>>]
    /\ lexed.tokens[4].val = <<97>>

\* "a:,": the "," is followed by no ":" and stays in the value
CommaInValue ==
    /\ lstep = "lexed"
    /\ lexIn = <<97, 58, 44>>
    /\ Len(lexed.tokens) = 3
    /\ lexed.tokens[2].val = <<44>>

\* ------------------------------------------------------------------------
\* Frames with bytes after them: an Event whose Size is the length of its
\* payload is encoded, other bytes are put after the frame, and the
\* datagram is decoded
\* ------------------------------------------------------------------------
\* the bytes after the frame: a zero byte, a ":", two bytes, the start of
\* another frame
Paddings == {<<0>>, <<separator>>, <<255, 1>>, FrameHead}

\* bytes.NewBuffer(append(frame, t...))
Pad(t) ==
    /\ cstep = "marshalled"
    /\ wire' = wire \o t
    /\ cstep' = "padded"
    /\ UNCHANGED <<ev, dec, notCodec>>

DecodePadded ==
    /\ cstep = "padded"
    /\ dec' = ReadFrom(ZeroEvent, wire)
    /\ cstep' = "decoded"
    /\ UNCHANGED <<ev, wire, notCodec>>

TrailNext ==
    \/ Marshal
    \/ \E t \in Paddings : Pad(t)
    \/ Decode
    \/ DecodePadded

InitTrail == InitCodec /\ ev.Size = Len(ev.PayloadBytes)

SpecTrail == InitTrail /\ [][TrailNext]_vars

\* the datagram decoded had bytes after the frame
FramePadded == cstep = "decoded" /\ Len(wire) > 34 + ev.Size

\* the decode took the frame and nothing else, and gave what the frame
\* alone gives
FrameOnly ==
    /\ ~dec.panicked
    /\ dec.err = Nil
    /\ dec.n = 34 + ev.Size
    /\ dec.rest = SubSeq(wire, 35 + ev.Size, Len(wire))
    /\ dec.e = ReadFrom(ZeroEvent, MarshalBinary(ev)).e
    /\ dec.e = ev
    /\ MarshalBinary(dec.e) = SubSeq(wire, 1, 34 + ev.Size)

\* C38: ReadFrom consumes the first 34 + Size bytes of a datagram and
\* ignores the bytes after them: a complete frame followed by other bytes
\* decodes with a nil error to the Event of the frame alone, and
\* MarshalBinary of that Event is the consumed prefix.
C38_TrailingBytesIgnored == FramePadded => FrameOnly

\* the same for the frames whose payload holds a ":"
TrailingIgnoredWithSeparator ==
    (FramePadded /\ HasSeparator(ev.PayloadBytes)) => FrameOnly

\* a frame with the payload "u:a,p:b" and the start of another frame after
\* it was decoded, the eight bytes after the frame left in the source
PaddedDecoded ==
    /\ FramePadded
    /\ FrameOnly
    /\ ev.PayloadBytes = <<117, 58, 97, 44, 112, 58, 98>>
    /\ dec.rest = FrameHead

\* a frame with the empty payload and a ":" after it: the decode panics
PaddedPanics ==
    /\ FramePadded
    /\ dec.panicked
    /\ ev.Size = 0
    /\ wire[35] = separator

\* collectEvents with a datagram that is FrameA with two bytes after it
PaddedA == FrameA \o <<255, 1>>

NextPadded == Next \/ ReadDatagram(PaddedA)

SpecPadded == Init /\ [][NextPadded]_vars

\* a run of datagrams that are FrameA, padded or not, gives one event of
\* FrameA for each
PaddedAcceptedAsOne ==
    (pc \in {"loop", "done"} /\ ret.err = Nil /\ nWrites = 1 /\ ~writeErr
        /\ \A k \in 1..Len(dequeued) : dequeued[k] \in {FrameA, PaddedA})
        => LET got == IF pc = "done" THEN ret.events ELSE events
           IN  got = [k \in 1..Len(dequeued) |-> DecodeOf(FrameA).e]

\* two padded datagrams were collected as two events
PaddedCollected ==
    /\ pc = "done"
    /\ dequeued = <<PaddedA, PaddedA>>
    /\ Len(ret.events) = 2

====
